---- MODULE Spec2Model ----
(***************************************************************************)
(* Model of amplifier-bundle-execution-environments:                       *)
(*   - EnvironmentRegistry (lib/amplifier_env_common/registry.py)          *)
(*   - LocalBackend.exec_command (lib/amplifier_env_common/backends/       *)
(*     local.py), the process-group timeout/kill protocol                  *)
(*   - filter_env_vars (lib/amplifier_env_common/env_filter.py)            *)
(*   - ReadOnlyWrapper, LoggingWrapper (lib/amplifier_env_common/wrappers) *)
(*     and their composition by env_create                                 *)
(*   - the file operations of LocalBackend, DockerBackend and              *)
(*     SSHBackendWrapper (lib/amplifier_env_common/backends/)              *)
(*   - the env_create and env_destroy tools (modules/tools-env-all) and    *)
(*     the session:end hook (modules/hooks-env-all)                        *)
(*                                                                         *)
(* Spec       : one EnvironmentRegistry and the calls of its session       *)
(* SpecShared : two registries of cooperating sessions, same backends      *)
(* SpecExec   : LocalBackend.exec_command calls and the processes of the   *)
(*              command each one runs                                      *)
(* SpecEnv    : one filter_env_vars call on arbitrary arguments            *)
(* SpecWrap   : env_create with a wrappers list, then calls on the backend *)
(*              it registered                                              *)
(* SpecFs     : file operations on one backend and its file system         *)
(* SpecRead   : read_file with offset and limit on arbitrary file texts,   *)
(*              locally and through the shell of a remote backend          *)
(* SpecTree   : LocalBackend.list_dir at every depth over a nested tree    *)
(* SpecSession: the tool and hook modules mounted in either order, then    *)
(*              env_destroy calls and the session:end handler              *)
(* SpecRace   : destroy and destroy_all tasks interleaved at their awaits  *)
(* SpecTools  : env_create calls step by step against the containers tool, *)
(*              then env_destroy and session end                           *)
(*                                                                         *)
(* A backend name stands for the resource cleanup() releases (a container, *)
(* a connection): two registrations of one name share that resource.       *)
(***************************************************************************)
EXTENDS Integers, Sequences, FiniteSets, TLC

VARIABLES
    instances,   \* registry -> its _instances dict, in insertion order
    cleanups,    \* backend -> how many times its cleanup() has been invoked
    registered,  \* backend -> how many register() calls stored it
    last,        \* the last registry call: what it was and how it ended
    nops,        \* number of registry calls made so far
    pc,          \* where the running exec_command call stands
    now,         \* time since exec_command recorded `start`
    call,        \* the arguments of the exec_command call
    shell,       \* the process create_subprocess_shell started (proc)
    child,       \* a descendant the command started in the background
    log,         \* what the timeout handling of the call did, in order
    result,      \* what exec_command returned
    envCall,     \* the arguments of a filter_env_vars call
    envResult,   \* what the filter_env_vars call returned
    wenv,        \* the wrappers env_create was asked for and the chain it built
    innerCount,  \* operation -> how many times the wrapped backend ran it
    wcall,       \* the last call made on the wrapped backend
    ncalls,      \* number of calls made on the wrapped backend
    fsKind,      \* which backend the file operations go to
    fs,          \* the file system that backend works on
    fsCall,      \* the last operation on that backend, and what it did
    rd,          \* a read_file call with offset and limit, and what it returns
    mounts,      \* which registry each mounted module holds, and the capability
    docker,      \* what the containers tool and the SSH hosts hold, and were asked
    creates,     \* caller -> where its env_create call stands
    made,        \* the env_create calls that have returned, in order
    tasks        \* task -> where its destroy() or destroy_all() call stands

regVars  == <<instances, cleanups, registered, last, nops>>
execVars == <<pc, now, call, shell, child, log, result>>
envVars  == <<envCall, envResult>>
wrapVars == <<wenv, innerCount, wcall, ncalls>>
fsVars   == <<fsKind, fs, fsCall>>
toolVars == <<rd, mounts, docker, creates, made, tasks>>
vars     == <<regVars, execVars, envVars, wrapVars, fsVars, toolVars>>

\* What the calls of one component leave alone: the other components.
outsideRegistry == <<execVars, envVars, wrapVars, fsVars, toolVars>>
outsideExec     == <<regVars, envVars, wrapVars, fsVars, toolVars>>
outsideEnv      == <<regVars, execVars, wrapVars, fsVars, toolVars>>
outsideWrap     == <<regVars, execVars, envVars, fsVars, toolVars>>
outsideFs       == <<regVars, execVars, envVars, wrapVars, toolVars>>

(***************************************************************************)
(* Bounds and input sets                                                   *)
(***************************************************************************)
MaxOps     == 4
MaxTimeout == 2
MaxTime    == 6
MaxCalls   == 3
MaxLen     == 3
MaxOffset  == 3
MaxLimit   == 2
MaxDepth   == 3
MaxCreates == 2

Registries == {"A", "B"}
Names      == {"n1", "n2"}
Backends   == {"b1", "b2"}
EnvTypes   == {"local", "docker"}
None       == "None"
EmptyMeta  == "{}"
Metas      == {None, "{gpu}"}

\* timeout: float | None, as <<>> (None) or <<seconds>>.
NoTimeout    == <<>>
Timeouts     == {NoTimeout} \cup {<<t>> : t \in 1..MaxTimeout}
\* proc.returncode: <<>> (None) until the shell has been waited for.
NoReturnCode == <<>>
Outputs      == {"", "out"}

\* What a command does that matters to the timeout/kill protocol.
Commands ==
    {c \in [output : Outputs, shellIgnoresTerm : BOOLEAN, hasChild : BOOLEAN,
            childInGroup : BOOLEAN, childIgnoresTerm : BOOLEAN] :
        ~c.hasChild => (~c.childInGroup /\ ~c.childIgnoresTerm)}

NoCommand ==
    [output |-> "", shellIgnoresTerm |-> FALSE, hasChild |-> FALSE,
     childInGroup |-> FALSE, childIgnoresTerm |-> FALSE]

NoChild == [alive |-> FALSE, inGroup |-> FALSE, holdsPipe |-> FALSE]

\* The value of `result` while no call has returned.
NoResult == [stdout |-> "", exit_code |-> 0, timed_out |-> FALSE]

(***************************************************************************)
(* EnvironmentRegistry                                                     *)
(***************************************************************************)

\* EnvironmentInstance(...) as register() builds it: `metadata or {}`.
EnvironmentInstance(name, backend, env_type, metadata, owned) ==
    [name     |-> name,
     backend  |-> backend,
     env_type |-> env_type,
     metadata |-> IF metadata = None THEN EmptyMeta ELSE metadata,
     owned    |-> owned]

\* `name in self._instances`
Has(insts, name) == \E i \in DOMAIN insts : insts[i].name = name

\* self._instances[name]
Lookup(insts, name) ==
    insts[CHOOSE i \in DOMAIN insts : insts[i].name = name]

\* EnvironmentRegistry.get
get(insts, name) ==
    IF Has(insts, name) THEN Lookup(insts, name).backend ELSE None

\* register() without the duplicate check: self._instances[name] = ... on
\* an existing key replaces the value in place.
register_overwrite(insts, name, backend, env_type, metadata, owned) ==
    IF Has(insts, name)
    THEN [insts |-> [i \in DOMAIN insts |->
                        IF insts[i].name = name
                        THEN EnvironmentInstance(name, backend, env_type, metadata, owned)
                        ELSE insts[i]],
          outcome |-> [kind |-> "ok", name |-> name]]
    ELSE [insts   |-> Append(insts,
                        EnvironmentInstance(name, backend, env_type, metadata, owned)),
          outcome |-> [kind |-> "ok", name |-> name]]

\* The outcome of register(): the dict afterwards and how the call ended.
register(insts, name, backend, env_type, metadata, owned) ==
    IF Has(insts, name)
    THEN [insts |-> insts, outcome |-> [kind |-> "ValueError", name |-> name]]
    ELSE [insts   |-> Append(insts,
                        EnvironmentInstance(name, backend, env_type, metadata, owned)),
          outcome |-> [kind |-> "ok", name |-> name]]

\* self._instances.pop(name, None): the dict without the entry.
Pop(insts, name) == SelectSeq(insts, LAMBDA e : e.name # name)

\* destroy() with cleanup() run before the entry is removed, so that a
\* raising cleanup() leaves the entry in place.
destroy_cleanup_first(insts, name, fails) ==
    IF ~Has(insts, name)
    THEN [insts |-> insts, called |-> <<>>, raised |-> <<>>,
          outcome |-> [kind |-> "KeyError", name |-> name]]
    ELSE IF name \in fails
         THEN [insts |-> insts, called |-> <<Lookup(insts, name).backend>>,
               raised |-> <<name>>,
               outcome |-> [kind |-> "CleanupError", name |-> name]]
         ELSE [insts |-> Pop(insts, name),
               called |-> <<Lookup(insts, name).backend>>, raised |-> <<>>,
               outcome |-> [kind |-> "ok", name |-> name]]

\* destroy(): pop first, then await instance.backend.cleanup().
\* `fails` is the set of names whose backend's cleanup() raises in this call.
\* called: the backends whose cleanup() was invoked, in order;
\* raised: the names whose cleanup() raised, in order.
destroy(insts, name, fails) ==
    IF ~Has(insts, name)
    THEN [insts |-> insts, called |-> <<>>, raised |-> <<>>,
          outcome |-> [kind |-> "KeyError", name |-> name]]
    ELSE [insts   |-> Pop(insts, name),
          called  |-> <<Lookup(insts, name).backend>>,
          raised  |-> IF name \in fails THEN <<name>> ELSE <<>>,
          outcome |-> IF name \in fails
                      THEN [kind |-> "CleanupError", name |-> name]
                      ELSE [kind |-> "ok", name |-> name]]

\* names = [name for name, inst in self._instances.items() if inst.owned]
OwnedNames(insts) ==
    LET owned == SelectSeq(insts, LAMBDA e : e.owned)
    IN  [i \in DOMAIN owned |-> owned[i].name]

NoError == [kind |-> "ok", name |-> None]

\* What destroy_all() starts its loop with: first_error = None.
LoopStart(insts) ==
    [insts |-> insts, called |-> <<>>, raised |-> <<>>, outcome |-> NoError]

\* The for loop of destroy_all(); acc carries the dict, the cleanup() calls
\* made so far and first_error (every Exception of destroy() is caught).
RECURSIVE destroy_all_loop(_, _, _)
destroy_all_loop(names, fails, acc) ==
    IF names = <<>>
    THEN acc
    ELSE LET d == destroy(acc.insts, Head(names), fails)
         IN  destroy_all_loop(Tail(names), fails,
                [insts   |-> d.insts,
                 called  |-> acc.called \o d.called,
                 raised  |-> acc.raised \o d.raised,
                 outcome |-> IF d.outcome.kind # "ok" /\ acc.outcome = NoError
                             THEN d.outcome
                             ELSE acc.outcome])

\* destroy_all() that tears down every entry, owned or not.
destroy_all_ignoring_owned(insts, fails) ==
    destroy_all_loop([i \in DOMAIN insts |-> insts[i].name], fails,
                     LoopStart(insts))

\* destroy_all() without the try/except: the first failing cleanup() ends it.
RECURSIVE destroy_all_stop_loop(_, _, _)
destroy_all_stop_loop(names, fails, acc) ==
    IF names = <<>> \/ acc.outcome # NoError
    THEN acc
    ELSE LET d == destroy(acc.insts, Head(names), fails)
         IN  destroy_all_stop_loop(Tail(names), fails,
                [insts   |-> d.insts,
                 called  |-> acc.called \o d.called,
                 raised  |-> acc.raised \o d.raised,
                 outcome |-> IF d.outcome.kind # "ok" THEN d.outcome ELSE NoError])

destroy_all_stop_at_first(insts, fails) ==
    destroy_all_stop_loop(OwnedNames(insts), fails, LoopStart(insts))

\* destroy_all(): the owned names in dict order, each destroyed, the first
\* failure re-raised at the end.
destroy_all(insts, fails) ==
    destroy_all_loop(OwnedNames(insts), fails, LoopStart(insts))

\* list_instances(): one dict per entry, in dict order; info stands for the
\* merged backend.info() fields.
list_instances(insts) ==
    [i \in DOMAIN insts |->
        [name     |-> insts[i].name,
         type     |-> insts[i].env_type,
         metadata |-> insts[i].metadata,
         owned    |-> insts[i].owned,
         info     |-> insts[i].backend]]

\* How many times b occurs in a sequence of backends.
Count(seq, b) == Cardinality({i \in DOMAIN seq : seq[i] = b})

(***************************************************************************)
(* Registry actions                                                        *)
(***************************************************************************)
\* A LocalBackend that runs no command.
ExecIdle ==
    /\ pc     = "idle"
    /\ now    = 0
    /\ call   = [timeout |-> NoTimeout, cmd |-> NoCommand]
    /\ shell  = [status |-> "none", rc |-> NoReturnCode]
    /\ child  = NoChild
    /\ log    = <<>>
    /\ result = NoResult

\* No filter_env_vars call is under way.
EnvIdle ==
    /\ envCall   = <<>>
    /\ envResult = <<>>

\* Freshly constructed registries, no call made yet.
RegistryEmpty ==
    /\ instances  = [r \in Registries |-> <<>>]
    /\ cleanups   = [b \in Backends |-> 0]
    /\ registered = [b \in Backends |-> 0]
    /\ last       = [op |-> "init", reg |-> None, called |-> <<>>, raised |-> <<>>,
                     outcome |-> NoError]
    /\ nops       = 0

\* The operations of the EnvironmentBackend protocol that wrappers pass on
\* or block, and the ones among them that write.
BackendOps == {"exec_command", "read_file", "write_file", "edit_file", "file_exists",
               "list_dir", "grep", "glob_files", "cleanup"}
WriteOps   == {"write_file", "edit_file"}

\* No environment has been created through env_create yet.
WrapIdle ==
    /\ wenv       = [wrappers |-> <<>>, chain |-> <<>>]
    /\ innerCount = [op \in BackendOps |-> 0]
    /\ wcall      = [op |-> "init", args |-> None, inner |-> None, trace |-> <<>>,
                     outcome |-> None]
    /\ ncalls     = 0

\* A location is the sequence of names from the root to it.  The host (or
\* container) holds the working directory /w and, beside it, a directory /o
\* with one file; /w/lnk is a symbolic link to /o.
WorkingDir == <<"w">>
OutsideDir == <<"o">>
Symlink    == [at |-> <<"w", "lnk">>, to |-> OutsideDir]
FileSlots  == {<<"w", "f">>, <<"w", "d", "f">>, <<"w", "d", "e", "f">>,
               <<"o", "f">>, <<"o", "g">>}

\* The file system before any operation: an empty working directory.  A
\* file is <<>> (absent) or <<its characters>>.
EmptyWorkingDir ==
    [files |-> [l \in FileSlots |-> IF l = <<"o", "f">> THEN <<(<<"a">>)>> ELSE <<>>],
     dirs  |-> {<<>>, WorkingDir, OutsideDir}]

NoFsCall ==
    [op |-> "init", path |-> <<>>, args |-> <<>>, ran |-> <<>>,
     outcome |-> [kind |-> "returned", value |-> <<>>], touched |-> {}, spawned |-> {}]

\* No backend is in use for file operations.
FsIdle ==
    /\ fsKind = "none"
    /\ fs     = EmptyWorkingDir
    /\ fsCall = NoFsCall

\* No read_file call with offset or limit is under way.
ReadIdle == rd = <<>>

\* The asyncio tasks that call destroy() and destroy_all() on one registry,
\* and a task that is in neither.
Tasks    == {"t1", "t2"}
IdleTask == [op |-> "none", pc |-> "idle", name |-> None, names |-> <<>>,
             first_error |-> NoError]

\* The tasks that call env_create, and a task that is in no such call.
Callers  == {"c1", "c2"}
NoCreate == [pc |-> "idle", input |-> <<>>, id |-> 0]

\* No module is mounted, the containers tool holds nothing, no tool call
\* and no task is under way.
ToolsIdle ==
    /\ mounts  = [tools |-> None, hooks |-> None, capability |-> None]
    /\ docker  = [live |-> {}, requests |-> {}]
    /\ creates = [c \in Callers |-> NoCreate]
    /\ made    = <<>>
    /\ tasks   = [t \in Tasks |-> IdleTask]

Init ==
    /\ RegistryEmpty
    /\ ExecIdle
    /\ EnvIdle
    /\ WrapIdle
    /\ FsIdle
    /\ ReadIdle
    /\ ToolsIdle

\* One register() call on registry r.
RegisterCall(r, name, backend, env_type, metadata, owned) ==
    LET res == register(instances[r], name, backend, env_type, metadata, owned)
    IN  /\ nops < MaxOps
        /\ instances'  = [instances EXCEPT ![r] = res.insts]
        /\ registered' = IF res.outcome.kind = "ok"
                         THEN [registered EXCEPT ![backend] = @ + 1]
                         ELSE registered
        /\ last' = [op |-> "register", reg |-> r, called |-> <<>>, raised |-> <<>>,
                    outcome |-> res.outcome]
        /\ nops' = nops + 1
        /\ UNCHANGED <<cleanups, outsideRegistry>>

Register(r) ==
    \E name \in Names, backend \in Backends, env_type \in EnvTypes,
       metadata \in Metas, owned \in BOOLEAN :
        RegisterCall(r, name, backend, env_type, metadata, owned)

\* A session registering a docker resource, created (owned) or attached
\* to (not owned), as two cooperating sessions do.
RegisterShared(r) ==
    \E name \in Names, backend \in Backends, owned \in BOOLEAN :
        RegisterCall(r, name, backend, "docker", None, owned)

Destroy(r) ==
    \E name \in Names, fails \in SUBSET Names :
        LET res == destroy(instances[r], name, fails)
        IN  /\ nops < MaxOps
            /\ instances' = [instances EXCEPT ![r] = res.insts]
            /\ cleanups'  = [b \in Backends |-> cleanups[b] + Count(res.called, b)]
            /\ last' = [op |-> "destroy", reg |-> r, called |-> res.called,
                        raised |-> res.raised, outcome |-> res.outcome]
            /\ nops' = nops + 1
            /\ UNCHANGED <<registered, outsideRegistry>>

DestroyAll(r) ==
    \E fails \in SUBSET Names :
        LET res == destroy_all(instances[r], fails)
        IN  /\ nops < MaxOps
            /\ instances' = [instances EXCEPT ![r] = res.insts]
            /\ cleanups'  = [b \in Backends |-> cleanups[b] + Count(res.called, b)]
            /\ last' = [op |-> "destroy_all", reg |-> r, called |-> res.called,
                        raised |-> res.raised, outcome |-> res.outcome]
            /\ nops' = nops + 1
            /\ UNCHANGED <<registered, outsideRegistry>>

\* One EnvironmentRegistry and its owning session.
Next ==
    Register("A") \/ Destroy("A") \/ DestroyAll("A")

Spec == Init /\ [][Next]_vars

\* Two registries of two cooperating sessions over the same backends.
NextShared ==
    \E r \in Registries : RegisterShared(r) \/ Destroy(r) \/ DestroyAll(r)

SpecShared == Init /\ [][NextShared]_vars

(***************************************************************************)
(* LocalBackend.exec_command: the process-group timeout/kill protocol      *)
(*                                                                         *)
(* The command runs as a shell in a session of its own                     *)
(* (start_new_session=True), so the shell's pid is the process-group id.   *)
(* A descendant inherits the group and the write ends of the stdout and    *)
(* stderr pipes unless it leaves the group (setsid) or redirects its       *)
(* output.  proc.communicate() returns when both pipes are at end-of-file  *)
(* and the shell has been waited for; the event loop's child watcher reaps *)
(* the shell as soon as it exits, after which os.getpgid(proc.pid) raises  *)
(* ProcessLookupError.  The pid is assumed not to be recycled during the   *)
(* call.                                                                   *)
(***************************************************************************)
GracePeriod     == 2
TimedOutExit    == -1
ExitStatuses    == {0, 1}
\* Signals the command may die of by itself: SIGHUP (1), SIGKILL (9).
OwnSignals      == {1, 9}

\* The signal number of the two signals exec_command sends.
SigNum(sig) == IF sig = "SIGTERM" THEN 15 ELSE 9

\* Both pipes are at end-of-file and proc.returncode is set.
CommunicateDone ==
    /\ shell.status = "reaped"
    /\ ~(child.alive /\ child.holdsPipe)

\* os.getpgid(proc.pid) finds the process: it has not been reaped.
GroupFound == shell.status # "reaped"

\* os.killpg(pgid, sig): every live member of the group gets sig; SIGTERM
\* can be ignored, SIGKILL cannot.  A killed shell has returncode -signum.
ShellAfterKillpg(sig) ==
    IF shell.status = "running" /\ (sig = "SIGKILL" \/ ~call.cmd.shellIgnoresTerm)
    THEN [status |-> "zombie", rc |-> <<-SigNum(sig)>>]
    ELSE shell

ChildAfterKillpg(sig) ==
    IF child.alive /\ child.inGroup /\ (sig = "SIGKILL" \/ ~call.cmd.childIgnoresTerm)
    THEN [child EXCEPT !.alive = FALSE, !.holdsPipe = FALSE]
    ELSE child

\* try: pgid = os.getpgid(proc.pid); os.killpg(pgid, sig)
\* except (ProcessLookupError, OSError): pass
SignalGroup(sig) ==
    IF GroupFound
    THEN /\ shell' = ShellAfterKillpg(sig)
         /\ child' = ChildAfterKillpg(sig)
         /\ log'   = log \o <<sig>>
    ELSE /\ UNCHANGED <<shell, child>>
         /\ log'   = log \o <<"ProcessLookupError">>

\* The signal of the first phase, were it the forceful one.
FirstSignal_kill == "SIGKILL"

\* The signal sent when the timeout expires.
FirstSignal == "SIGTERM"

\* The signal sent when the grace period expires.
SecondSignal == "SIGKILL"

\* asyncio.wait_for(proc.communicate(), timeout=timeout) has run out.
TimeoutExpired == call.timeout # NoTimeout /\ now >= call.timeout[1]

\* asyncio.wait_for(proc.communicate(), timeout=2.0) has run out; the grace
\* period starts when the timeout fires.
GraceExpired == now >= call.timeout[1] + GracePeriod

\* exit_code=proc.returncode or 0
ReturnCodeOr0(rc) == IF rc = NoReturnCode \/ rc = <<0>> THEN 0 ELSE rc[1]

\* The EnvExecResult of a command that completed.
CompletedResult ==
    [stdout    |-> call.cmd.output,
     exit_code |-> ReturnCodeOr0(shell.rc),
     timed_out |-> FALSE]

\* The EnvExecResult of a command that timed out.
TimedOutResult ==
    [stdout    |-> "",
     exit_code |-> TimedOutExit,
     timed_out |-> TRUE]

\* exec_command(cmd, timeout): the shell is started, `start` recorded.
ExecCommand ==
    \E timeout \in Timeouts, cmd \in Commands :
        /\ pc \in {"idle", "done"}
        /\ pc'     = "wait"
        /\ now'    = 0
        /\ call'   = [timeout |-> timeout, cmd |-> cmd]
        /\ shell'  = [status |-> "running", rc |-> NoReturnCode]
        /\ child'  = IF cmd.hasChild
                     THEN [alive |-> TRUE, inGroup |-> cmd.childInGroup,
                           holdsPipe |-> TRUE]
                     ELSE NoChild
        /\ log'    = <<>>
        /\ result' = NoResult
        /\ UNCHANGED outsideExec

\* The first communicate() returns before the timeout: the normal result.
Completes ==
    /\ pc = "wait"
    /\ CommunicateDone
    /\ pc'     = "done"
    /\ result' = CompletedResult
    /\ UNCHANGED <<now, call, shell, child, log, outsideExec>>

\* except asyncio.TimeoutError: SIGTERM to the group, then the grace wait.
OnTimeout ==
    /\ pc = "wait"
    /\ TimeoutExpired
    /\ SignalGroup(FirstSignal)
    /\ pc' = "grace"
    /\ UNCHANGED <<now, call, result, outsideExec>>

\* The second communicate() returns within the grace period.
GraceCompletes ==
    /\ pc = "grace"
    /\ CommunicateDone
    /\ pc'     = "done"
    /\ log'    = log \o <<"finished">>
    /\ result' = TimedOutResult
    /\ UNCHANGED <<now, call, shell, child, outsideExec>>

\* The grace period runs out: SIGKILL to the group, then communicate()
\* without a timeout.
OnGraceTimeout ==
    /\ pc = "grace"
    /\ GraceExpired
    /\ SignalGroup(SecondSignal)
    /\ pc' = "drain"
    /\ UNCHANGED <<now, call, result, outsideExec>>

\* The last communicate() returns.
DrainCompletes ==
    /\ pc = "drain"
    /\ CommunicateDone
    /\ pc'     = "done"
    /\ result' = TimedOutResult
    /\ UNCHANGED <<now, call, shell, child, log, outsideExec>>

Running == pc \in {"wait", "grace", "drain"}

\* The shell ends by itself: with an exit status, or killed by a signal.
ShellExits ==
    \E rc \in ExitStatuses \cup {-sig : sig \in OwnSignals} :
        /\ Running
        /\ shell.status = "running"
        /\ shell' = [status |-> "zombie", rc |-> <<rc>>]
        /\ UNCHANGED <<pc, now, call, child, log, result, outsideExec>>

\* The child watcher waits for the shell and sets proc.returncode.
Reap ==
    /\ Running
    /\ shell.status = "zombie"
    /\ shell' = [shell EXCEPT !.status = "reaped"]
    /\ UNCHANGED <<pc, now, call, child, log, result, outsideExec>>

\* The descendant ends by itself.
ChildExits ==
    /\ Running
    /\ child.alive
    /\ child' = [child EXCEPT !.alive = FALSE, !.holdsPipe = FALSE]
    /\ UNCHANGED <<pc, now, call, shell, log, result, outsideExec>>

\* The descendant redirects its output and goes on running.
ChildClosesPipes ==
    /\ Running
    /\ child.alive
    /\ child.holdsPipe
    /\ child' = [child EXCEPT !.holdsPipe = FALSE]
    /\ UNCHANGED <<pc, now, call, shell, log, result, outsideExec>>

\* What the event loop does without letting time pass: it reaps an exited
\* shell, resumes a communicate() that is complete, fires a timer that is due.
Urgent ==
    \/ shell.status = "zombie"
    \/ CommunicateDone
    \/ pc = "wait" /\ TimeoutExpired
    \/ pc = "grace" /\ GraceExpired

\* Time passes while exec_command is suspended.
Tick ==
    /\ Running
    /\ ~Urgent
    /\ now < MaxTime
    /\ now' = now + 1
    /\ UNCHANGED <<pc, call, shell, child, log, result, outsideExec>>

NextExec ==
    \/ ExecCommand
    \/ Completes
    \/ OnTimeout
    \/ GraceCompletes
    \/ OnGraceTimeout
    \/ DrainCompletes
    \/ ShellExits
    \/ Reap
    \/ ChildExits
    \/ ChildClosesPipes
    \/ Tick

SpecExec == Init /\ [][NextExec]_vars

(***************************************************************************)
(* filter_env_vars (lib/amplifier_env_common/env_filter.py)                *)
(*                                                                         *)
(* A variable name is the sequence of its characters; an environment (a    *)
(* dict) is a function from the names it holds to their values.            *)
(***************************************************************************)
CORE_VARS ==
    {<<"P","A","T","H">>,
     <<"H","O","M","E">>,
     <<"U","S","E","R">>,
     <<"S","H","E","L","L">>,
     <<"L","A","N","G">>,
     <<"T","E","R","M">>,
     <<"T","M","P","D","I","R">>,
     <<"G","O","P","A","T","H">>,
     <<"C","A","R","G","O","_","H","O","M","E">>,
     <<"N","V","M","_","D","I","R">>,
     <<"P","Y","E","N","V","_","R","O","O","T">>,
     <<"J","A","V","A","_","H","O","M","E">>,
     <<"R","U","S","T","U","P","_","H","O","M","E">>}

SECRET_SUFFIXES ==
    {<<"_","A","P","I","_","K","E","Y">>,
     <<"_","S","E","C","R","E","T">>,
     <<"_","T","O","K","E","N">>,
     <<"_","P","A","S","S","W","O","R","D">>,
     <<"_","C","R","E","D","E","N","T","I","A","L">>,
     <<"_","A","U","T","H">>}

EnvVarPolicy == {"inherit_all", "core_only", "inherit_none"}

\* The names the modelled environments draw from: a core name, a secret
\* name, a secret name in lower case, and a name that only resembles one.
EnvKeys   == {<<"P","A","T","H">>, <<"A","_","A","U","T","H">>, <<"a","_","a","u","t","h">>, <<"A","U","T","H">>}
EnvValues == {"v1", "v2"}
EnvDicts  == UNION {[ks -> EnvValues] : ks \in SUBSET EnvKeys}

\* explicit_vars: dict | None, as <<>> (None) or <<dict>>.
NoExplicit    == <<>>
ExplicitVars  == {NoExplicit} \cup {<<d>> : d \in EnvDicts}

\* str.upper() on the characters of a name.
upper(name) ==
    LET lower == <<"a","b","c","d","e","f","g","h","i","j","k","l","m","n","o","p","q","r","s","t","u","v","w","x","y","z">>
        caps  == <<"A","B","C","D","E","F","G","H","I","J","K","L","M","N","O","P","Q","R","S","T","U","V","W","X","Y","Z">>
    IN  [i \in DOMAIN name |->
            IF \E j \in DOMAIN lower : lower[j] = name[i]
            THEN caps[CHOOSE j \in DOMAIN lower : lower[j] = name[i]]
            ELSE name[i]]

\* str.endswith(suffix)
endswith(str, suffix) ==
    /\ Len(suffix) <= Len(str)
    /\ SubSeq(str, Len(str) - Len(suffix) + 1, Len(str)) = suffix

\* The mutation of _is_secret that compares the name as it is written.
_is_secret_case_sensitive(name) ==
    \E suffix \in SECRET_SUFFIXES : endswith(name, suffix)

_is_secret(name) ==
    \E suffix \in SECRET_SUFFIXES : endswith(upper(name), suffix)

\* dict.update(other)
update(d, other) ==
    [k \in DOMAIN d \cup DOMAIN other |-> IF k \in DOMAIN other THEN other[k] ELSE d[k]]

\* The dict the policy branch of filter_env_vars builds from base_env.
inherited(policy, base_env) ==
    CASE policy = "inherit_all"  -> base_env
      [] policy = "core_only"    ->
            [k \in {x \in DOMAIN base_env : x \in CORE_VARS \/ ~_is_secret(x)} |-> base_env[k]]
      [] policy = "inherit_none" -> [k \in {} |-> "v1"]
      [] OTHER                   -> base_env

\* The mutation of filter_env_vars that merges the overrides before the
\* policy is applied.
filter_env_vars_merge_first(policy, base_env, explicit_vars) ==
    IF explicit_vars # NoExplicit /\ DOMAIN explicit_vars[1] # {}
    THEN inherited(policy, update(base_env, explicit_vars[1]))
    ELSE inherited(policy, base_env)

filter_env_vars(policy, base_env, explicit_vars) ==
    IF explicit_vars # NoExplicit /\ DOMAIN explicit_vars[1] # {}
    THEN update(inherited(policy, base_env), explicit_vars[1])
    ELSE inherited(policy, base_env)

\* A caller is about to call filter_env_vars with some arguments.
InitEnv ==
    /\ RegistryEmpty
    /\ ExecIdle
    /\ WrapIdle
    /\ FsIdle
    /\ ReadIdle
    /\ ToolsIdle
    /\ envCall \in {<<c>> : c \in [policy : EnvVarPolicy, base_env : EnvDicts,
                                  explicit_vars : ExplicitVars]}
    /\ envResult = <<>>

\* The call returns.
FilterEnvVars ==
    /\ envCall # <<>>
    /\ envResult = <<>>
    /\ envResult' = <<filter_env_vars(envCall[1].policy, envCall[1].base_env,
                                      envCall[1].explicit_vars)>>
    /\ UNCHANGED <<envCall, outsideEnv>>

NextEnv == FilterEnvVars

SpecEnv == InitEnv /\ [][NextEnv]_vars

(***************************************************************************)
(* ReadOnlyWrapper, LoggingWrapper (lib/amplifier_env_common/wrappers/)    *)
(* and the chain of them env_create builds (modules/tools-env-all/         *)
(* amplifier_module_tools_env_all/factory.py)                              *)
(*                                                                         *)
(* A call on a wrapped backend yields its trace, the log records emitted   *)
(* and the operations of the wrapped backend invoked, in order, and its    *)
(* outcome: what the caller gets back or has raised at it.                 *)
(***************************************************************************)
\* The arguments of one call, passed on as a whole.
CallArgs == {"args1", "args2"}

\* What the wrapped backend's operation does when invoked: write_file and
\* cleanup return None, the others a value; each may raise instead.
InnerOutcomes(op) ==
    (IF op \in {"write_file", "cleanup"} THEN {None} ELSE {"value1", "value2"})
        \cup {"BackendError"}

PermissionError == "PermissionError"

\* The wrappers lists env_create is called with.
WrapperLists == {<<>>, <<"readonly">>, <<"logging">>,
                 <<"logging", "readonly">>, <<"readonly", "logging">>}

\* The operations LoggingWrapper logs before it passes them on.
LoggedOps == {"exec_command", "read_file", "write_file", "edit_file", "grep", "cleanup"}

\* The mutation of wrap that applies the wrappers in the order of the list,
\* the first one listed outermost.
wrap_in_list_order(wrappers) == wrappers

\* The chain env_create builds for a wrappers list, outermost wrapper first:
\* ReadOnlyWrapper is applied first, LoggingWrapper around it.
wrap(wrappers) ==
    (IF \E i \in DOMAIN wrappers : wrappers[i] = "logging" THEN <<"logging">> ELSE <<>>)
        \o (IF \E i \in DOMAIN wrappers : wrappers[i] = "readonly"
            THEN <<"readonly">> ELSE <<>>)

\* The wrapped backend itself runs op.
Backend(op, args, res) ==
    [trace |-> <<[ev |-> "inner", op |-> op, args |-> args]>>, outcome |-> res]

\* The mutation of ReadOnlyWrapper that passes every operation on.
ReadOnlyWrapper_passes_writes(op, inner) == inner

\* ReadOnlyWrapper.<op>, inner being what its inner backend does with the
\* call: write_file and edit_file raise, the others return await inner.
ReadOnlyWrapper(op, inner) ==
    IF op \in WriteOps THEN [trace |-> <<>>, outcome |-> PermissionError]
    ELSE inner

\* LoggingWrapper.<op>: the logged operations emit a record, then await
\* inner; exec_command emits a second record when inner has returned.
LoggingWrapper(op, args, inner) ==
    LET before == IF op \in LoggedOps
                  THEN <<[ev |-> "log", op |-> op, args |-> args]>> ELSE <<>>
        after  == IF op = "exec_command" /\ inner.outcome \in {"value1", "value2"}
                  THEN <<[ev |-> "log", op |-> "exec_command_exit", args |-> args]>>
                  ELSE <<>>
    IN  [trace |-> before \o inner.trace \o after, outcome |-> inner.outcome]

\* A call of op on the backend wrapped by chain, res being what the wrapped
\* backend's own operation does if it is reached.
RECURSIVE Through(_, _, _, _)
Through(chain, op, args, res) ==
    IF chain = <<>> THEN Backend(op, args, res)
    ELSE IF Head(chain) = "readonly"
         THEN ReadOnlyWrapper(op, Through(Tail(chain), op, args, res))
         ELSE LoggingWrapper(op, args, Through(Tail(chain), op, args, res))

\* How many times a trace invokes the wrapped backend's operation op.
Invocations(trace, op) ==
    Len(SelectSeq(trace, LAMBDA e : e.ev = "inner" /\ e.op = op))

\* env_create builds the backend and wraps it as the wrappers list asks.
EnvCreate ==
    /\ wcall.op = "init"
    /\ \E wrappers \in WrapperLists :
          /\ wenv'  = [wrappers |-> wrappers, chain |-> wrap(wrappers)]
          /\ wcall' = [wcall EXCEPT !.op = "env_create"]
    /\ UNCHANGED <<innerCount, ncalls, outsideWrap>>

\* One call of an operation on the backend env_create registered.
WrappedCall ==
    /\ wcall.op # "init"
    /\ ncalls < MaxCalls
    /\ \E op \in BackendOps, args \in CallArgs :
          \E res \in InnerOutcomes(op) :
              LET r == Through(wenv.chain, op, args, res)
              IN  /\ wcall' = [op |-> op, args |-> args, inner |-> res,
                               trace |-> r.trace, outcome |-> r.outcome]
                  /\ innerCount' = [o \in BackendOps |->
                                       innerCount[o] + Invocations(r.trace, o)]
    /\ ncalls' = ncalls + 1
    /\ UNCHANGED <<wenv, outsideWrap>>

NextWrap == EnvCreate \/ WrappedCall

SpecWrap == Init /\ [][NextWrap]_vars

(***************************************************************************)
(* File operations of LocalBackend (lib/amplifier_env_common/backends/     *)
(* local.py), DockerBackend (backends/docker.py) and SSHBackendWrapper     *)
(* (backends/ssh.py)                                                       *)
(*                                                                         *)
(* A path argument is [abs, parts]: whether the string starts with "/",    *)
(* and its components.  A text is the sequence of its characters, "CR" and *)
(* "LF" being carriage return and line feed.                               *)
(***************************************************************************)
BackendKinds == {"local", "docker", "ssh"}

\* The path arguments of the modelled calls: f, d/f, ../o/f, lnk/g, /w/f,
\* /o/g, "." and /o.
Paths ==
    {[abs |-> FALSE, parts |-> <<"f">>],
     [abs |-> FALSE, parts |-> <<"d", "f">>],
     [abs |-> FALSE, parts |-> <<"..", "o", "f">>],
     [abs |-> FALSE, parts |-> <<"lnk", "g">>],
     [abs |-> TRUE,  parts |-> <<"w", "f">>],
     [abs |-> TRUE,  parts |-> <<"o", "g">>],
     [abs |-> FALSE, parts |-> <<".">>],
     [abs |-> TRUE,  parts |-> <<"o">>]}

\* The content arguments of write_file, the old_string and new_string of
\* edit_file, and the patterns of grep ("[" is not a regular expression).
Contents     == {<<"a", "a", "a">>, <<"a", "CR", "LF">>}
OldStrings   == {<<"a">>, <<"a", "a">>}
NewStrings   == {<<"b">>}
GrepPatterns == {"a", "z", "["}

\* Path.resolve(), and the path resolution of the operating system: the
\* location reached from `from` along parts, following the symbolic link.
RECURSIVE Walk(_, _)
Walk(from, parts) ==
    IF parts = <<>> THEN from
    ELSE LET c    == Head(parts)
             next == IF c = "." THEN from
                     ELSE IF c = ".."
                          THEN (IF from = <<>> THEN from
                                ELSE SubSeq(from, 1, Len(from) - 1))
                          ELSE IF Append(from, c) = Symlink.at THEN Symlink.to
                               ELSE Append(from, c)
         IN  Walk(next, Tail(parts))

\* Path.is_relative_to(other)
is_relative_to(loc, other) ==
    Len(other) <= Len(loc) /\ SubSeq(loc, 1, Len(other)) = other

\* LocalBackend._resolve: the resolved location, and whether it raises the
\* "Path escapes working directory" ValueError.
_resolve(path) ==
    LET resolved == Walk(IF path.abs THEN <<>> ELSE WorkingDir, path.parts)
    IN  [resolved |-> resolved, escapes |-> ~is_relative_to(resolved, WorkingDir)]

\* What a location holds in file system f.
EntryType(f, loc) ==
    IF loc \in f.dirs THEN "dir"
    ELSE IF loc \in FileSlots /\ f.files[loc] # <<>> THEN "file"
    ELSE "absent"

\* The names directly under directory loc; lnk shows as what it points to.
Children(f, loc) ==
    {[name |-> l[Len(l)], entry_type |-> EntryType(f, l)] :
        l \in {x \in f.dirs \cup FileSlots :
                  /\ Len(x) = Len(loc) + 1
                  /\ is_relative_to(x, loc)
                  /\ EntryType(f, x) # "absent"}}
      \cup (IF loc = WorkingDir THEN {[name |-> "lnk", entry_type |-> "dir"]} ELSE {})

\* Path.read_text(): the characters of the file with "\r\n" and "\r"
\* translated to "\n" (text mode, universal newlines).
RECURSIVE read_text(_)
read_text(chars) ==
    IF chars = <<>> THEN <<>>
    ELSE IF Head(chars) = "CR"
         THEN <<"LF">> \o read_text(IF Len(chars) >= 2 /\ chars[2] = "LF"
                                    THEN SubSeq(chars, 3, Len(chars))
                                    ELSE Tail(chars))
         ELSE <<Head(chars)>> \o read_text(Tail(chars))

\* Path.write_text(content): "\n" is written as os.linesep, which is "\n"
\* on the POSIX hosts the backend has its process-group handling for.
RECURSIVE write_text(_)
write_text(content) ==
    IF content = <<>> THEN <<>>
    ELSE (IF Head(content) = "LF" THEN <<"LF">> ELSE <<Head(content)>>)
            \o write_text(Tail(content))

\* str.count(old): occurrences counted left to right, the search resuming
\* after the end of each one found.
RECURSIVE count(_, _)
count(content, old) ==
    IF old = <<>> THEN Len(content) + 1
    ELSE IF Len(content) < Len(old) THEN 0
    ELSE IF SubSeq(content, 1, Len(old)) = old
         THEN 1 + count(SubSeq(content, Len(old) + 1, Len(content)), old)
         ELSE count(Tail(content), old)

\* str.replace(old, new, 1) on a content that holds old.
replace(content, old, new) ==
    LET i == CHOOSE k \in 1..(Len(content) - Len(old) + 1) :
                 /\ SubSeq(content, k, k + Len(old) - 1) = old
                 /\ \A j \in 1..(k - 1) : SubSeq(content, j, j + Len(old) - 1) # old
    IN  SubSeq(content, 1, i - 1) \o new \o SubSeq(content, i + Len(old), Len(content))

\* The count/replace step the three edit_file share: the error it raises
\* ("" when none) and the new content.
patch(content, old, new) ==
    IF count(content, old) = 0 THEN [error |-> "ValueError: String not found", content |-> content]
    ELSE IF count(content, old) > 1
         THEN [error |-> "ValueError: String not unique", content |-> content]
         ELSE [error |-> "", content |-> replace(content, old, new)]

\* The file system after a file is written at loc, mkdir -p of its parents
\* included.
Written(f, loc, chars) ==
    [files |-> [f.files EXCEPT ![loc] = <<chars>>],
     dirs  |-> f.dirs \cup {SubSeq(loc, 1, n) : n \in 0..(Len(loc) - 1)}]

\* What the grep process does: exit status 0 with the files under loc that
\* hold the one-character pattern, 1 when there is none, 2 when the pattern
\* is malformed or loc does not exist.
GrepRun(f, pattern, loc) ==
    LET hits == {l \in FileSlots :
                    /\ EntryType(f, l) = "file"
                    /\ is_relative_to(l, loc)
                    /\ \E i \in DOMAIN f.files[l][1] : f.files[l][1][i] = pattern}
    IN  IF pattern = "[" \/ EntryType(f, loc) = "absent"
        THEN [exit_code |-> 2, stdout |-> {}]
        ELSE [exit_code |-> IF hits = {} THEN 1 ELSE 0, stdout |-> hits]

\* What a grep call returns: the text of stdout, or "No matches found.".
GrepText(stdout) == [text |-> "stdout", hits |-> stdout]
NoMatchesFound   == [text |-> "No matches found.", hits |-> {}]

\* The directory the host process itself runs in, against which the
\* operating system resolves the relative cwd of a subprocess.
ProcessCwd == OutsideDir

\* DockerBackend._exec / SSHBackendWrapper._exec: what the operation gets
\* for a shell command whose run in the container yields output.  When the
\* containers tool returns no output mapping, DockerBackend._exec
\* substitutes an empty success.
_exec(delivered, output) ==
    IF delivered THEN output ELSE [stdout |-> <<>>, exit_code |-> 0]

\* The paths the calls on the backend are made with: any of Paths on a
\* LocalBackend, the ones within /w on a container or remote host.
CallPaths == IF fsKind = "local" THEN Paths ELSE {p \in Paths : ~_resolve(p).escapes}

\* Whether the containers tool delivers the output of a command.
Deliveries == IF fsKind = "docker" THEN BOOLEAN ELSE {TRUE}

\* Where the shell of the container or remote host finds a path.
Remote(path) == Walk(IF path.abs THEN <<>> ELSE WorkingDir, path.parts)

\* An operation ends: what it was called with, whether its remote commands
\* ran, how it ended, the locations it read, wrote or examined, the
\* processes it started on the host, and the file system it leaves.
Return(op, path, args, ran, kind, value, touched, spawned, f) ==
    /\ fsCall' = [op |-> op, path |-> path, args |-> args, ran |-> ran,
                  outcome |-> [kind |-> kind, value |-> value],
                  touched |-> touched, spawned |-> spawned]
    /\ fs' = f
    /\ UNCHANGED <<fsKind, outsideFs>>

Escapes == "ValueError: Path escapes working directory"

\* A backend of some kind is constructed on the empty working directory.
InitFs ==
    /\ RegistryEmpty
    /\ ExecIdle
    /\ EnvIdle
    /\ WrapIdle
    /\ ReadIdle
    /\ ToolsIdle
    /\ fsKind \in BackendKinds
    /\ fs     = EmptyWorkingDir
    /\ fsCall = NoFsCall

\* read_file(path) without offset and limit.
ReadFile ==
    \E path \in CallPaths :
        IF fsKind = "local"
        THEN LET r == _resolve(path)
                 t == EntryType(fs, r.resolved)
             IN  IF r.escapes
                 THEN Return("read_file", <<path>>, <<>>, <<>>, Escapes, <<>>, {}, {}, fs)
                 ELSE IF t = "absent"
                 THEN Return("read_file", <<path>>, <<>>, <<>>, "FileNotFoundError", <<>>,
                             {r.resolved}, {}, fs)
                 ELSE IF t = "dir"
                 THEN Return("read_file", <<path>>, <<>>, <<>>, "IsADirectoryError", <<>>,
                             {r.resolved}, {}, fs)
                 ELSE Return("read_file", <<path>>, <<>>, <<>>, "returned",
                             read_text(fs.files[r.resolved][1]), {r.resolved}, {}, fs)
        ELSE \E delivered \in Deliveries :
                LET loc == Remote(path)
                    cat == IF EntryType(fs, loc) = "file"
                           THEN [stdout |-> fs.files[loc][1], exit_code |-> 0]
                           ELSE [stdout |-> <<>>, exit_code |-> 1]
                    out == _exec(delivered, cat)
                IN  Return("read_file", <<path>>, <<>>, <<delivered>>, "returned", out.stdout,
                           IF delivered THEN {loc} ELSE {}, {}, fs)

\* The shell command of the remote write_file, run on file system f:
\* mkdir -p <parent> && printf '%s' <content> > <path>.
RemoteWrite(f, path, content) ==
    LET loc == Remote(path)
    IN  IF EntryType(f, loc) = "dir" \/ loc \notin FileSlots
        THEN [fs |-> f, exit_code |-> 1]
        ELSE [fs |-> Written(f, loc, content), exit_code |-> 0]

\* write_file(path, content)
WriteFileTo(path, content) ==
    IF fsKind = "local"
    THEN LET r == _resolve(path)
         IN  IF r.escapes
             THEN Return("write_file", <<path>>, <<content>>, <<>>, Escapes, <<>>, {}, {}, fs)
             ELSE IF EntryType(fs, r.resolved) = "dir"
             THEN Return("write_file", <<path>>, <<content>>, <<>>, "IsADirectoryError",
                         <<>>, {r.resolved}, {}, fs)
             ELSE Return("write_file", <<path>>, <<content>>, <<>>, "returned", <<>>,
                         {r.resolved}, {},
                         Written(fs, r.resolved, write_text(content)))
    ELSE \E delivered \in Deliveries :
            LET w == RemoteWrite(fs, path, content)
            IN  Return("write_file", <<path>>, <<content>>, <<delivered>>, "returned", <<>>,
                       IF delivered THEN {Remote(path)} ELSE {}, {},
                       IF delivered THEN w.fs ELSE fs)

WriteFile ==
    \E path \in CallPaths, content \in Contents : WriteFileTo(path, content)

\* edit_file(path, old_string, new_string)
EditFile ==
    \E path \in CallPaths, old \in OldStrings, new \in NewStrings :
        IF fsKind = "local"
        THEN LET r == _resolve(path)
                 t == EntryType(fs, r.resolved)
                 p == patch(read_text(fs.files[r.resolved][1]), old, new)
             IN  IF r.escapes
                 THEN Return("edit_file", <<path>>, <<old, new>>, <<>>, Escapes, <<>>, {}, {}, fs)
                 ELSE IF t = "absent"
                 THEN Return("edit_file", <<path>>, <<old, new>>, <<>>, "FileNotFoundError",
                             <<>>, {r.resolved}, {}, fs)
                 ELSE IF t = "dir"
                 THEN Return("edit_file", <<path>>, <<old, new>>, <<>>, "IsADirectoryError",
                             <<>>, {r.resolved}, {}, fs)
                 ELSE IF p.error # ""
                 THEN Return("edit_file", <<path>>, <<old, new>>, <<>>, p.error, <<>>,
                             {r.resolved}, {}, fs)
                 ELSE Return("edit_file", <<path>>, <<old, new>>, <<>>, "returned", <<>>,
                             {r.resolved}, {},
                             Written(fs, r.resolved, write_text(p.content)))
        ELSE \E read \in Deliveries, written \in Deliveries :
                LET loc == Remote(path)
                    cat == IF EntryType(fs, loc) = "file"
                           THEN [stdout |-> fs.files[loc][1], exit_code |-> 0]
                           ELSE [stdout |-> <<>>, exit_code |-> 1]
                    p   == patch(_exec(read, cat).stdout, old, new)
                    w   == RemoteWrite(fs, path, p.content)
                IN  IF p.error # ""
                    THEN Return("edit_file", <<path>>, <<old, new>>, <<read>>, p.error, <<>>,
                                IF read THEN {loc} ELSE {}, {}, fs)
                    ELSE Return("edit_file", <<path>>, <<old, new>>, <<read, written>>,
                                "returned", <<>>,
                                IF read \/ written THEN {loc} ELSE {}, {},
                                IF written THEN w.fs ELSE fs)

\* file_exists(path)
FileExists ==
    \E path \in CallPaths :
        IF fsKind = "local"
        THEN LET r == _resolve(path)
             IN  IF r.escapes
                 THEN Return("file_exists", <<path>>, <<>>, <<>>, Escapes, FALSE, {}, {}, fs)
                 ELSE Return("file_exists", <<path>>, <<>>, <<>>, "returned",
                             EntryType(fs, r.resolved) # "absent", {r.resolved}, {}, fs)
        ELSE \E delivered \in Deliveries :
                LET loc  == Remote(path)
                    test == [stdout |-> <<>>,
                             exit_code |-> IF EntryType(fs, loc) # "absent" THEN 0 ELSE 1]
                IN  Return("file_exists", <<path>>, <<>>, <<delivered>>, "returned",
                           _exec(delivered, test).exit_code = 0,
                           IF delivered THEN {loc} ELSE {}, {}, fs)

\* grep(pattern, path), path being optional.
Grep ==
    \E pattern \in GrepPatterns, path \in {<<>>} \cup {<<p>> : p \in CallPaths} :
        IF fsKind = "local"
        THEN LET r   == _resolve(IF path = <<>> THEN [abs |-> FALSE, parts |-> <<".">>]
                                 ELSE path[1])
                 run == GrepRun(fs, pattern, r.resolved)
             IN  IF r.escapes
                 THEN Return("grep", path, <<pattern>>, <<>>, Escapes, NoMatchesFound, {}, {}, fs)
                 ELSE IF run.exit_code = 1
                 THEN Return("grep", path, <<pattern>>, <<>>, "returned", NoMatchesFound,
                             {r.resolved}, {[proc |-> "grep", at |-> r.resolved]}, fs)
                 ELSE IF run.exit_code > 1
                 THEN Return("grep", path, <<pattern>>, <<>>, "RuntimeError", NoMatchesFound,
                             {r.resolved}, {[proc |-> "grep", at |-> r.resolved]}, fs)
                 ELSE Return("grep", path, <<pattern>>, <<>>, "returned", GrepText(run.stdout),
                             {r.resolved}, {[proc |-> "grep", at |-> r.resolved]}, fs)
        ELSE \E delivered \in Deliveries :
                LET loc == IF path = <<>> THEN WorkingDir ELSE Remote(path[1])
                    run == GrepRun(fs, pattern, loc)
                    out == _exec(delivered, [stdout |-> run.stdout, exit_code |-> run.exit_code])
                IN  Return("grep", path, <<pattern>>, <<delivered>>, "returned",
                           IF out.exit_code = 1 THEN NoMatchesFound
                           ELSE GrepText(IF delivered THEN out.stdout ELSE {}),
                           IF delivered THEN {loc} ELSE {}, {}, fs)

\* _walk that enters the directories found at the last level too.
RECURSIVE _walk_one_deeper(_, _, _, _, _)
_walk_one_deeper(f, loc, rel, current_depth, depth) ==
    UNION {
        {[name       |-> Append(rel, c.name),
          entry_type |-> c.entry_type,
          size       |-> IF c.entry_type = "file"
                         THEN <<Len(f.files[Append(loc, c.name)][1])>>
                         ELSE <<>>]}
          \cup (IF c.entry_type = "dir" /\ current_depth <= depth
                THEN _walk_one_deeper(f, Walk(loc, <<c.name>>), Append(rel, c.name),
                                      current_depth + 1, depth)
                ELSE {})
        : c \in Children(f, loc)}

\* _walk of LocalBackend.list_dir: the entries of the directory at loc,
\* which is `rel` below the listed one, and of the directories under it
\* while current_depth < depth.  A name is the sequence of the components
\* of the relative path, one component at the first level.
RECURSIVE _walk(_, _, _, _, _)
_walk(f, loc, rel, current_depth, depth) ==
    UNION {
        {[name       |-> Append(rel, c.name),
          entry_type |-> c.entry_type,
          size       |-> IF c.entry_type = "file"
                         THEN <<Len(f.files[Append(loc, c.name)][1])>>
                         ELSE <<>>]}
          \cup (IF c.entry_type = "dir" /\ current_depth < depth
                THEN _walk(f, Walk(loc, <<c.name>>), Append(rel, c.name),
                           current_depth + 1, depth)
                ELSE {})
        : c \in Children(f, loc)}

\* LocalBackend.list_dir(path, depth).
ListDir ==
    /\ fsKind = "local"
    /\ \E path \in CallPaths, depth \in 1..MaxDepth :
          LET r == _resolve(path)
          IN  IF r.escapes
              THEN Return("list_dir", <<path>>, <<depth>>, <<>>, Escapes, {}, {}, {}, fs)
              ELSE IF EntryType(fs, r.resolved) # "dir"
              THEN Return("list_dir", <<path>>, <<depth>>, <<>>, "FileNotFoundError", {},
                          {r.resolved}, {}, fs)
              ELSE Return("list_dir", <<path>>, <<depth>>, <<>>, "returned",
                          _walk(fs, r.resolved, <<>>, 1, depth), {r.resolved}, {}, fs)

\* LocalBackend.glob_files("*", path), path being optional.
GlobFiles ==
    /\ fsKind = "local"
    /\ \E path \in {<<>>} \cup {<<p>> : p \in CallPaths} :
          LET r == _resolve(IF path = <<>> THEN [abs |-> FALSE, parts |-> <<".">>]
                            ELSE path[1])
          IN  IF r.escapes
              THEN Return("glob_files", path, <<"*">>, <<>>, Escapes, {}, {}, {}, fs)
              ELSE Return("glob_files", path, <<"*">>, <<>>, "returned",
                          IF EntryType(fs, r.resolved) = "dir"
                          THEN {c.name : c \in Children(fs, r.resolved)} ELSE {},
                          {r.resolved}, {}, fs)

\* LocalBackend.exec_command("pwd", workdir=workdir) without a timeout: the
\* shell is started with cwd = workdir or self._working_dir and prints it.
\* DockerBackend.exec_command and SSHBackendWrapper.exec_command of "true"
\* or "false" without workdir: the EnvExecResult built from what _exec
\* gives, of which exit_code is kept here.
ExecCommandIn ==
    IF fsKind = "local"
    THEN \E workdir \in {<<>>} \cup {<<p>> : p \in Paths} :
          LET cwd == IF workdir = <<>> THEN WorkingDir
                     ELSE Walk(IF workdir[1].abs THEN <<>> ELSE ProcessCwd, workdir[1].parts)
          IN  IF EntryType(fs, cwd) # "dir"
              THEN Return("exec_command", workdir, <<"pwd">>, <<>>, "OSError", <<>>, {}, {}, fs)
              ELSE Return("exec_command", workdir, <<"pwd">>, <<>>, "returned", cwd,
                          {}, {[proc |-> "sh", at |-> cwd]}, fs)
    ELSE \E cmd \in {"true", "false"}, delivered \in Deliveries :
          LET run == [stdout |-> <<>>, exit_code |-> IF cmd = "true" THEN 0 ELSE 1]
          IN  Return("exec_command", <<>>, <<cmd>>, <<delivered>>, "returned",
                     [exit_code |-> _exec(delivered, run).exit_code], {}, {}, fs)

NextFs ==
    \/ ReadFile
    \/ WriteFile
    \/ EditFile
    \/ FileExists
    \/ Grep
    \/ ListDir
    \/ GlobFiles
    \/ ExecCommandIn

SpecFs == InitFs /\ [][NextFs]_vars

\* A LocalBackend rooted at an empty directory, files written up to two
\* directories down (f, d/f, d/e/f), and list_dir calls.
NestedPaths ==
    {[abs |-> FALSE, parts |-> <<"f">>],
     [abs |-> FALSE, parts |-> <<"d", "f">>],
     [abs |-> FALSE, parts |-> <<"d", "e", "f">>]}

InitTree == InitFs /\ fsKind = "local"

WriteNested ==
    \E path \in NestedPaths, content \in Contents : WriteFileTo(path, content)

NextTree == WriteNested \/ ListDir

SpecTree == InitTree /\ [][NextTree]_vars

(***************************************************************************)
(* read_file with offset and limit: LocalBackend.read_file and the shell   *)
(* command DockerBackend.read_file and SSHBackendWrapper.read_file run     *)
(*                                                                         *)
(* "FF" is the form feed character.  offset and limit are <<>> (None) or   *)
(* <<n>>.                                                                  *)
(***************************************************************************)
Chars   == {"a", "LF", "CR", "FF"}
Texts   == UNION {[1..n -> Chars] : n \in 0..MaxLen}
Offsets == {<<>>} \cup {<<n>> : n \in 0..MaxOffset}
Limits  == {<<>>} \cup {<<n>> : n \in 0..MaxLimit}

\* The characters str.splitlines ends a line at, of the ones in Chars, and
\* the one tail and head end a line at.
PythonLineEnds == {"LF", "CR", "FF"}
ShellLineEnds  == {"LF"}

\* str.splitlines(keepends=True), and the lines tail and head count: chars
\* cut after every line end, "\r\n" being one line end where "\r" is one.
RECURSIVE splitlines(_, _)
splitlines(chars, lineEnds) ==
    LET ends == {i \in DOMAIN chars : chars[i] \in lineEnds}
    IN  IF chars = <<>> THEN <<>>
        ELSE IF ends = {} THEN <<chars>>
        ELSE LET i == CHOOSE k \in ends : \A j \in ends : k <= j
                 e == IF chars[i] = "CR" /\ i < Len(chars) /\ chars[i + 1] = "LF"
                      THEN i + 1 ELSE i
             IN  <<SubSeq(chars, 1, e)>>
                    \o splitlines(SubSeq(chars, e + 1, Len(chars)), lineEnds)

\* lines[start:end] for start, end >= 0.
Slice(lines, start, end) ==
    IF start >= Len(lines) \/ end <= start THEN <<>>
    ELSE SubSeq(lines, start + 1, IF end < Len(lines) THEN end ELSE Len(lines))

\* "".join(lines), and the lines a command writes to its stdout.
RECURSIVE join(_)
join(lines) == IF lines = <<>> THEN <<>> ELSE Head(lines) \o join(Tail(lines))

\* LocalBackend.read_file on an existing file holding `file`.
LocalRead(file, offset, limit) ==
    LET content == read_text(file)
        lines   == splitlines(content, PythonLineEnds)
        start   == IF offset # <<>> /\ offset[1] # 0 THEN offset[1] - 1 ELSE 0
        end     == IF limit # <<>> /\ limit[1] # 0 THEN start + limit[1] ELSE Len(lines)
    IN  IF offset # <<>> \/ limit # <<>> THEN join(Slice(lines, start, end)) ELSE content

\* tail -n +k: the lines from line k on (from the first for k = 0), and
\* head -n n: the first n lines.
tail(lines, k) == Slice(lines, IF k = 0 THEN 0 ELSE k - 1, Len(lines))
head(lines, n) == Slice(lines, 0, n)

\* DockerBackend.read_file / SSHBackendWrapper.read_file: the stdout of the
\* command built from offset and limit, run on a file holding `file`.
RemoteRead(file, offset, limit) ==
    LET lines == splitlines(file, ShellLineEnds)
    IN  IF offset # <<>> /\ limit # <<>> THEN join(head(tail(lines, offset[1]), limit[1]))
        ELSE IF offset # <<>> THEN join(tail(lines, offset[1]))
        ELSE IF limit # <<>> THEN join(head(lines, limit[1]))
        ELSE file

\* A file and the arguments of a read_file call on it.
InitRead ==
    /\ RegistryEmpty
    /\ ExecIdle
    /\ EnvIdle
    /\ WrapIdle
    /\ FsIdle
    /\ ToolsIdle
    /\ rd \in {<<c>> : c \in [file : Texts, offset : Offsets, limit : Limits,
                              returned : {<<>>}]}

\* The call returns: what a LocalBackend returns for the file, and what a
\* DockerBackend or SSHBackendWrapper returns for it.
ReadLines ==
    /\ rd # <<>>
    /\ rd[1].returned = <<>>
    /\ rd' = <<[rd[1] EXCEPT !.returned =
                  <<[local  |-> LocalRead(rd[1].file, rd[1].offset, rd[1].limit),
                     remote |-> RemoteRead(rd[1].file, rd[1].offset, rd[1].limit)]>>]>>
    /\ UNCHANGED <<regVars, execVars, envVars, wrapVars, fsVars,
                   mounts, docker, creates, made, tasks>>

NextRead == ReadLines

SpecRead == InitRead /\ [][NextRead]_vars

(***************************************************************************)
(* The session: mount of tools-env-all and hooks-env-all                   *)
(* (modules/*/__init__.py), env_create's registration, EnvDestroyTool      *)
(* (management.py) and the session:end hook EnvCleanupHandler              *)
(*                                                                         *)
(* Registries "A" and "B" are the first and the second EnvironmentRegistry *)
(* object constructed in the session.                                      *)
(***************************************************************************)
\* EnvironmentRegistry(): the object a mount constructs.
NewRegistry == IF mounts.tools = None /\ mounts.hooks = None THEN "A" ELSE "B"

\* registry.register("local", LocalBackend(working_dir=...), "local") on a
\* new registry.
WithLocal == register(<<>>, "local", "LocalBackend", "local", None, TRUE).insts

\* mount() of tools-env-all: get the registry capability or create it.
MountTools ==
    /\ mounts.tools = None
    /\ IF mounts.capability = None
       THEN /\ instances' = [instances EXCEPT ![NewRegistry] = WithLocal]
            /\ mounts' = [mounts EXCEPT !.tools = NewRegistry, !.capability = NewRegistry]
       ELSE /\ instances' = instances
            /\ mounts' = [mounts EXCEPT !.tools = mounts.capability]
    /\ last' = [op |-> "mount", reg |-> mounts'.tools, called |-> <<>>, raised |-> <<>>,
                outcome |-> NoError]
    /\ UNCHANGED <<cleanups, registered, nops, execVars, envVars, wrapVars, fsVars,
                   rd, docker, creates, made, tasks>>

\* mount() of hooks-env-all: create a registry, store it as the capability
\* and hand it to the session:end handler.
MountHooks ==
    /\ mounts.hooks = None
    /\ instances' = [instances EXCEPT ![NewRegistry] = WithLocal]
    /\ mounts' = [mounts EXCEPT !.hooks = NewRegistry, !.capability = NewRegistry]
    /\ last' = [op |-> "mount", reg |-> NewRegistry, called |-> <<>>, raised |-> <<>>,
                outcome |-> NoError]
    /\ UNCHANGED <<cleanups, registered, nops, execVars, envVars, wrapVars, fsVars,
                   rd, docker, creates, made, tasks>>

\* env_create, as far as the registry sees it: a docker backend registered
\* on the registry of the tools, owned unless attach_to was given.
ToolRegister ==
    /\ mounts.tools # None
    /\ \E name \in Names, backend \in Backends, attach_to \in BOOLEAN :
          RegisterCall(mounts.tools, name, backend, "docker", None, ~attach_to)

\* The instance parameter of env_destroy: absent, or a name.
DestroyInputs == {<<>>} \cup {<<n>> : n \in Names \cup {"local"}}

\* EnvDestroyTool.execute: the registry afterwards, the cleanup() calls and
\* how the call ended: with a ToolResult (for a failure, the names it
\* lists as active, if any), or with the exception that leaves it.
execute(insts, instance, fails) ==
    IF instance = <<>>
    THEN [insts |-> insts, called |-> <<>>, raised |-> <<>>,
          outcome |-> [kind |-> "ToolResult", success |-> FALSE, active |-> <<>>]]
    ELSE LET d == destroy(insts, instance[1], fails)
         IN  [insts  |-> d.insts,
              called |-> d.called,
              raised |-> d.raised,
              outcome |->
                 IF d.outcome.kind = "ok"
                 THEN [kind |-> "ToolResult", success |-> TRUE, active |-> <<>>]
                 ELSE IF d.outcome.kind = "KeyError"
                 THEN [kind |-> "ToolResult", success |-> FALSE,
                       active |-> <<[i \in DOMAIN d.insts |-> d.insts[i].name]>>]
                 ELSE [kind |-> d.outcome.kind, success |-> FALSE, active |-> <<>>]]

\* One env_destroy call through the tool.
EnvDestroy ==
    /\ mounts.tools # None
    /\ nops < MaxOps
    /\ \E instance \in DestroyInputs, fails \in SUBSET Names :
          LET res == execute(instances[mounts.tools], instance, fails)
          IN  /\ instances' = [instances EXCEPT ![mounts.tools] = res.insts]
              /\ cleanups'  = [b \in Backends |-> cleanups[b] + Count(res.called, b)]
              /\ last' = [op |-> "env_destroy", reg |-> mounts.tools,
                          called |-> res.called, raised |-> res.raised,
                          outcome |-> res.outcome]
    /\ nops' = nops + 1
    /\ UNCHANGED <<registered, outsideRegistry>>

Continue == [kind |-> "HookResult", name |-> "continue"]

\* handle_session_end without the try/except around destroy_all().
handle_session_end_without_try(insts, fails) ==
    IF list_instances(insts) = <<>>
    THEN [insts |-> insts, called |-> <<>>, raised |-> <<>>, outcome |-> Continue]
    ELSE LET d == destroy_all(insts, fails)
         IN  [d EXCEPT !.outcome = IF d.outcome = NoError THEN Continue ELSE d.outcome]

\* EnvCleanupHandler.handle_session_end: nothing to do on an empty
\* registry; otherwise destroy_all(), whose exception is logged.
handle_session_end(insts, fails) ==
    IF list_instances(insts) = <<>>
    THEN [insts |-> insts, called |-> <<>>, raised |-> <<>>, outcome |-> Continue]
    ELSE [destroy_all(insts, fails) EXCEPT !.outcome = Continue]

\* The session ends: the hook runs on the registry the handler was given.
SessionEnd ==
    /\ mounts.hooks # None
    /\ nops < MaxOps
    /\ \E fails \in SUBSET Names :
          LET res == handle_session_end(instances[mounts.hooks], fails)
          IN  /\ instances' = [instances EXCEPT ![mounts.hooks] = res.insts]
              /\ cleanups'  = [b \in Backends |-> cleanups[b] + Count(res.called, b)]
              /\ last' = [op |-> "session:end", reg |-> mounts.hooks,
                          called |-> res.called, raised |-> res.raised,
                          outcome |-> res.outcome]
    /\ nops' = nops + 1
    /\ UNCHANGED <<registered, outsideRegistry>>

NextSession ==
    \/ MountTools
    \/ MountHooks
    \/ ToolRegister
    \/ EnvDestroy
    \/ SessionEnd

SpecSession == Init /\ [][NextSession]_vars

(***************************************************************************)
(* EnvironmentRegistry.destroy and destroy_all called by concurrent tasks  *)
(*                                                                         *)
(* A task runs without interruption up to an await that suspends it: here  *)
(* `await instance.backend.cleanup()`.  Between two such points the other  *)
(* task may run.                                                           *)
(***************************************************************************)
\* destroy() up to its await with the entry left in the dict while
\* cleanup() runs.
begin_destroy_keeping_entry(insts, name) ==
    IF Has(insts, name)
    THEN [insts |-> insts, cleaning |-> <<Lookup(insts, name).backend>>, error |-> NoError]
    ELSE [insts |-> insts, cleaning |-> <<>>, error |-> [kind |-> "KeyError", name |-> name]]

\* destroy(name) up to its await: the entry is popped and cleanup() of its
\* backend is invoked, or KeyError is raised.
begin_destroy(insts, name) ==
    IF Has(insts, name)
    THEN [insts |-> Pop(insts, name), cleaning |-> <<Lookup(insts, name).backend>>,
          error |-> NoError]
    ELSE [insts |-> insts, cleaning |-> <<>>, error |-> [kind |-> "KeyError", name |-> name]]

\* The for loop of destroy_all() from `names` on, up to the next cleanup()
\* it awaits or to its end; a destroy() that raises KeyError does not
\* suspend the task.
RECURSIVE run_loop(_, _, _)
run_loop(insts, names, first_error) ==
    IF names = <<>>
    THEN [insts |-> insts, cleaning |-> <<>>, name |-> None, names |-> <<>>,
          first_error |-> first_error]
    ELSE LET d == begin_destroy(insts, Head(names))
         IN  IF d.cleaning # <<>>
             THEN [insts |-> d.insts, cleaning |-> d.cleaning, name |-> Head(names),
                   names |-> Tail(names), first_error |-> first_error]
             ELSE run_loop(insts, Tail(names),
                           IF first_error = NoError THEN d.error ELSE first_error)

\* Task t ran call op up to r: it is suspended in a cleanup(), or the call
\* has ended, with first_error raised if there is one.
Await(t, op, r) ==
    /\ instances' = [instances EXCEPT !["A"] = r.insts]
    /\ cleanups'  = [b \in Backends |-> cleanups[b] + Count(r.cleaning, b)]
    /\ IF r.cleaning # <<>>
       THEN /\ tasks' = [tasks EXCEPT ![t] = [op |-> op, pc |-> "cleanup", name |-> r.name,
                                              names |-> r.names,
                                              first_error |-> r.first_error]]
            /\ last' = last
       ELSE /\ tasks' = [tasks EXCEPT ![t] = IdleTask]
            /\ last' = [op |-> op, reg |-> "A", called |-> <<>>, raised |-> <<>>,
                        outcome |-> r.first_error]
    /\ UNCHANGED <<registered, execVars, envVars, wrapVars, fsVars,
                   rd, mounts, docker, creates, made>>

\* Task t calls destroy(name).
StartDestroy(t) ==
    /\ tasks[t].pc = "idle"
    /\ nops < MaxOps
    /\ nops' = nops + 1
    /\ \E name \in Names :
          LET d == begin_destroy(instances["A"], name)
          IN  Await(t, "destroy", [insts |-> d.insts, cleaning |-> d.cleaning, name |-> name,
                                   names |-> <<>>, first_error |-> d.error])

\* Task t calls destroy_all().
StartDestroyAll(t) ==
    /\ tasks[t].pc = "idle"
    /\ nops < MaxOps
    /\ nops' = nops + 1
    /\ Await(t, "destroy_all",
             run_loop(instances["A"], OwnedNames(instances["A"]), NoError))

\* The cleanup() task t awaits returns or raises, and t runs on.
CleanupReturns(t) ==
    /\ tasks[t].pc = "cleanup"
    /\ nops' = nops
    /\ \E raises \in BOOLEAN :
          LET err   == IF raises THEN [kind |-> "CleanupError", name |-> tasks[t].name]
                       ELSE NoError
              first == IF tasks[t].first_error = NoError THEN err ELSE tasks[t].first_error
          IN  IF tasks[t].op = "destroy"
              THEN Await(t, "destroy", [insts |-> instances["A"], cleaning |-> <<>>,
                                        name |-> None, names |-> <<>>, first_error |-> err])
              ELSE Await(t, "destroy_all", run_loop(instances["A"], tasks[t].names, first))

\* A register() call while no destroy() or destroy_all() is under way.
RegisterBetween ==
    /\ \A t \in Tasks : tasks[t].pc = "idle"
    /\ RegisterShared("A")

NextRace ==
    \/ RegisterBetween
    \/ \E t \in Tasks : StartDestroy(t) \/ StartDestroyAll(t) \/ CleanupReturns(t)

SpecRace == Init /\ [][NextRace]_vars

(***************************************************************************)
(* EnvCreateTool.execute (modules/tools-env-all/.../factory.py) with the   *)
(* containers tool and the SSH connection it uses, and the teardown of     *)
(* what it registered, DockerBackend.cleanup included                      *)
(*                                                                         *)
(* Containers, stacks and connections are numbered: 0 is the container    *)
(* attach_to names, the others are made by the call with that number.      *)
(* attach_to and compose_project are <<>> (absent) or <<value>>.           *)
(* execute suspends in its awaits of the containers tool and of connect(); *)
(* the model takes the call up to the first one, and from there to its     *)
(* end, as one step each.                                                  *)
(***************************************************************************)
\* The inputs of env_create: compose_project and health_check are read for
\* type docker only, health_check on the compose path only.
CreateInputs ==
    {i \in [type : {"local", "docker", "ssh"}, name : Names, attach_to : {<<>>, <<0>>},
            compose_project : {<<>>, <<"proj">>}, health_check : BOOLEAN] :
        /\ i.type # "docker" => i.compose_project = <<>>
        /\ i.compose_project = <<>> => ~i.health_check}

\* What the containers tool answers to the requests of one call: to create
\* (failed, success with or without a container id in the output), and to
\* status or wait_healthy; for ssh, whether connect() succeeds.
Responses == [create : {"failed", "with id", "without id"}, ok : BOOLEAN]

\* What a call makes come into being: a container, a compose stack with
\* its project, or an SSH connection.
Resource(kind, id, project) == [kind |-> kind, id |-> id, project |-> project]

\* DockerBackend(containers_invoke=..., container_id=...), LocalBackend(...)
\* and SSHBackendWrapper(...) as the factory constructs them; `holds` is
\* what the call that constructed the backend made.
NewBackend(kind, container_id, holds) ==
    [kind |-> kind, container_id |-> container_id, compose_project |-> <<>>, holds |-> holds]

\* _create_local, _create_docker, _create_docker_compose and _create_ssh for
\* call number id: what the call made, and the backend it returns (<<>>
\* when it raises).
_create(input, id, resp) ==
    IF input.type = "local"
    THEN [made |-> {}, backend |-> <<NewBackend("local", <<>>, {})>>]
    ELSE IF input.type = "ssh"
    THEN (IF resp.ok
          THEN [made |-> {Resource("connection", id, <<>>)},
                backend |-> <<NewBackend("ssh", <<id>>, {Resource("connection", id, <<>>)})>>]
          ELSE [made |-> {}, backend |-> <<>>])
    ELSE IF input.compose_project # <<>>
    THEN (IF resp.create = "failed" THEN [made |-> {}, backend |-> <<>>]
          ELSE IF input.health_check /\ ~resp.ok
          THEN [made |-> {Resource("stack", id, input.compose_project)}, backend |-> <<>>]
          ELSE [made |-> {Resource("stack", id, input.compose_project)},
                backend |-> <<NewBackend("docker",
                                         IF input.attach_to # <<>> THEN input.attach_to
                                         ELSE <<id>>,
                                         {Resource("stack", id, input.compose_project)})>>])
    ELSE IF input.attach_to # <<>>
    THEN (IF resp.ok
          THEN [made |-> {}, backend |-> <<NewBackend("docker", input.attach_to, {})>>]
          ELSE [made |-> {}, backend |-> <<>>])
    ELSE IF resp.create = "failed" THEN [made |-> {}, backend |-> <<>>]
    ELSE IF resp.create = "without id" THEN [made |-> {Resource("container", id, <<>>)}, backend |-> <<>>]
    ELSE [made |-> {Resource("container", id, <<>>)},
          backend |-> <<NewBackend("docker", <<id>>, {Resource("container", id, <<>>)})>>]

\* execute from the backend on: the register call with the owned flag, and
\* the ToolResult; every exception becomes a failure result.
Registered(insts, input, c) ==
    LET owned == input.attach_to = <<>>
        r     == IF c.backend = <<>> THEN [insts |-> insts, outcome |-> [kind |-> "raised"]]
                 ELSE register(insts, input.name, c.backend[1], input.type, "{policy}", owned)
    IN  [insts  |-> r.insts,
         result |-> [input |-> input, success |-> r.outcome.kind = "ok", made |-> c.made,
                     owned |-> owned]]

\* Call `id` of task c ends with `res`: the registry and the resources it
\* leaves, and its result.
Finished(c, res) ==
    /\ instances' = [instances EXCEPT !["A"] = res.insts]
    /\ docker'    = [docker EXCEPT !.live = @ \cup res.result.made]
    /\ made'      = Append(made, res.result)
    /\ creates'   = [creates EXCEPT ![c] = NoCreate]
    /\ UNCHANGED <<cleanups, registered, last, nops, execVars, envVars, wrapVars, fsVars,
                   rd, mounts, tasks>>

\* execute up to its first await: the parameter and duplicate checks; a
\* local backend is constructed and registered without suspending.
CreateBegin(c) ==
    /\ creates[c].pc = "idle"
    /\ Len(made) + Cardinality({d \in Callers : creates[d].pc # "idle"}) < MaxCreates
    /\ \E input \in CreateInputs :
          IF Has(instances["A"], input.name)
          THEN Finished(c, [insts  |-> instances["A"],
                            result |-> [input |-> input, success |-> FALSE, made |-> {},
                                        owned |-> FALSE]])
          ELSE IF input.type = "local"
          THEN Finished(c, Registered(instances["A"], input,
                                      _create(input, 0, [create |-> "failed", ok |-> FALSE])))
          ELSE /\ creates' = [creates EXCEPT ![c] =
                                [pc |-> "awaiting", input |-> <<input>>,
                                 id |-> Len(made) + Cardinality({d \in Callers :
                                                        creates[d].pc # "idle"}) + 1]]
               /\ UNCHANGED <<regVars, execVars, envVars, wrapVars, fsVars,
                              rd, mounts, docker, made, tasks>>

\* The containers tool, or connect(), has answered: the rest of execute.
CreateFinish(c) ==
    /\ creates[c].pc = "awaiting"
    /\ \E resp \in Responses :
          Finished(c, Registered(instances["A"], creates[c].input[1],
                                 _create(creates[c].input[1], creates[c].id, resp)))

\* cleanup() of a backend: the request DockerBackend.cleanup sends to the
\* containers tool, the disconnect of an SSHBackendWrapper, nothing for a
\* LocalBackend.
cleanup(b) ==
    IF b.kind = "docker"
    THEN {[operation |-> "destroy", container |-> b.container_id,
           compose_project |-> b.compose_project]}
    ELSE IF b.kind = "ssh"
    THEN {[operation |-> "disconnect", container |-> b.container_id, compose_project |-> <<>>]}
    ELSE {}

\* Whether a request releases resource r: a container by its id, a stack
\* by its compose project, a connection by its disconnect.
Covers(req, r) ==
    IF r.kind = "stack"
    THEN req.operation = "destroy" /\ req.compose_project = r.project
    ELSE IF r.kind = "container"
    THEN req.operation = "destroy" /\ req.container = <<r.id>>
    ELSE req.operation = "disconnect" /\ req.container = <<r.id>>

\* A teardown through the registry has run with outcome res: the cleanup()
\* calls reach the containers tool and the connections.
TornDown(op, res) ==
    LET requests == UNION {cleanup(res.called[i]) : i \in DOMAIN res.called}
    IN  /\ nops < MaxOps
        /\ nops' = nops + 1
        /\ instances' = [instances EXCEPT !["A"] = res.insts]
        /\ docker' = [live     |-> {r \in docker.live : \A req \in requests : ~Covers(req, r)},
                      requests |-> docker.requests \cup requests]
        /\ last' = [op |-> op, reg |-> "A", called |-> res.called, raised |-> res.raised,
                    outcome |-> res.outcome]
        /\ UNCHANGED <<cleanups, registered, execVars, envVars, wrapVars, fsVars,
                       rd, mounts, creates, made, tasks>>

\* env_destroy of a name, and the session:end hook, on the registry the
\* tool registers in.
ToolDestroy    == \E name \in Names : TornDown("env_destroy", destroy(instances["A"], name, {}))
ToolSessionEnd == TornDown("session:end", handle_session_end(instances["A"], {}))

NextTools ==
    \/ \E c \in Callers : CreateBegin(c) \/ CreateFinish(c)
    \/ ToolDestroy
    \/ ToolSessionEnd

SpecTools == Init /\ [][NextTools]_vars

(***************************************************************************)
(* Properties of the registry                                              *)
(***************************************************************************)
Range(seq) == {seq[i] : i \in DOMAIN seq}

\* The entries of a dict that hold backend b.
EntriesOf(insts, b) == SelectSeq(insts, LAMBDA e : e.backend = b)

\* The names a list_instances() result shows.
ListedNames(insts) == {list_instances(insts)[i].name : i \in DOMAIN insts}

\* No name occurs twice in a dict.
UniqueNames(insts) ==
    \A i, j \in DOMAIN insts : insts[i].name = insts[j].name => i = j

\* C1: destroy(name) of a registered name removes the entry whether or not
\* cleanup() raises: afterwards get(name) is absent and list_instances()
\* does not show name; cleanup() of the entry's backend was invoked once, and
\* the call raises exactly when that cleanup() raised.
C1_DestroyRemovesEntry ==
    [][ (last'.op = "destroy" /\ Has(instances[last'.reg], last'.outcome.name)) =>
          LET r == last'.reg
              n == last'.outcome.name
          IN  /\ get(instances'[r], n) = None
              /\ n \notin ListedNames(instances'[r])
              /\ last'.called = <<get(instances[r], n)>>
              /\ (last'.outcome.kind = "CleanupError") = (last'.raised = <<n>>)
              /\ last'.outcome.kind \in {"ok", "CleanupError"}
      ]_regVars

\* A destroy() whose cleanup() raised, the name gone from the registry.
C1_Witness ==
    /\ last.op = "destroy"
    /\ last.outcome.kind = "CleanupError"
    /\ Len(last.called) = 1
    /\ get(instances[last.reg], last.outcome.name) = None

\* C2: destroy_all() invokes cleanup() once per owned entry and never for an
\* unowned one; afterwards the registry holds exactly the entries that were
\* unowned before, unchanged and in the same order.
C2_DestroyAllOwnedOnly ==
    [][ last'.op = "destroy_all" =>
          LET r   == last'.reg
              pre == instances[r]
          IN  /\ instances'[r] = SelectSeq(pre, LAMBDA e : ~e.owned)
              /\ \A b \in Backends :
                    /\ Count(last'.called, b) =
                          Len(SelectSeq(pre, LAMBDA e : e.owned /\ e.backend = b))
                    /\ cleanups'[b] = cleanups[b] + Count(last'.called, b)
      ]_regVars

\* A destroy_all() that cleaned an owned entry up and left an unowned one.
C2_Witness ==
    /\ last.op = "destroy_all"
    /\ Len(last.called) >= 1
    /\ instances[last.reg] # <<>>

\* C3: destroy_all() attempts cleanup() on every owned entry in registration
\* order whichever of them raise, leaves no owned entry, and ends with the
\* exception of the first failing entry, or normally when none failed.
C3_DestroyAllContinues ==
    [][ last'.op = "destroy_all" =>
          LET r       == last'.reg
              pre     == instances[r]
              owned   == SelectSeq(pre, LAMBDA e : e.owned)
              failing == SelectSeq(owned, LAMBDA e : e.name \in Range(last'.raised))
          IN  /\ last'.called = [i \in DOMAIN owned |-> owned[i].backend]
              /\ \A i \in DOMAIN instances'[r] : ~instances'[r][i].owned
              /\ last'.outcome =
                    IF failing = <<>>
                    THEN NoError
                    ELSE [kind |-> "CleanupError", name |-> failing[1].name]
      ]_regVars

\* A destroy_all() in which two cleanup() calls raised: the second was still
\* attempted, the first is the one re-raised.
C3_Witness ==
    /\ last.op = "destroy_all"
    /\ Len(last.raised) = 2
    /\ Len(last.called) = 2
    /\ last.outcome = [kind |-> "CleanupError", name |-> last.raised[1]]
    /\ instances[last.reg] = <<>>

\* C4: register() of a name that is already registered raises ValueError
\* and changes no registry; no registry ever holds a name twice.
C4_DuplicateRegisterRejected ==
    [][ /\ \A r \in Registries : UniqueNames(instances'[r])
        /\ (last'.op = "register" /\ Has(instances[last'.reg], last'.outcome.name)) =>
              /\ last'.outcome.kind = "ValueError"
              /\ instances' = instances
              /\ registered' = registered
      ]_regVars

\* A rejected second register() of a name.
C4_Witness ==
    /\ last.op = "register"
    /\ last.outcome.kind = "ValueError"
    /\ Has(instances[last.reg], last.outcome.name)

\* C5 as claimed: no backend ever has cleanup() invoked more than once.
C5_CleanupAtMostOncePerBackend ==
    \A b \in Backends : cleanups[b] <= 1

\* C5 amended: cleanup() is invoked at most once per registration: a
\* backend's cleanup() count never exceeds the number of register() calls
\* that stored it, less the entries that still hold it.
C5_CleanupAtMostOncePerRegistration ==
    \A b \in Backends :
        cleanups[b] + Len(EntriesOf(instances["A"], b))
                    + Len(EntriesOf(instances["B"], b)) <= registered[b]

\* A backend stored by two register() calls (under two names, or again
\* after its destroy) and cleaned up once for each.
C5_Witness ==
    \E b \in Backends : registered[b] = 2 /\ cleanups[b] = 2

\* b is registered owned in A and, only unowned, in B.
SharedCase(b) ==
    /\ \E i \in DOMAIN instances["A"] :
          instances["A"][i].backend = b /\ instances["A"][i].owned
    /\ EntriesOf(instances["B"], b) # <<>>
    /\ \A i \in DOMAIN instances["B"] :
          instances["B"][i].backend = b => ~instances["B"][i].owned

\* C6 as claimed: no call on B invokes cleanup() of a backend that A owns
\* and B holds unowned.
C6_OnlyOwnerReleases ==
    [][ \A b \in Backends :
          (SharedCase(b) /\ last'.reg = "B") => cleanups'[b] = cleanups[b]
      ]_regVars

\* C6 amended: B's destroy_all() neither invokes cleanup() of such a backend
\* nor removes B's entries for it, and leaves A alone; B's explicit
\* destroy(name) of such an entry does remove it and invoke cleanup(),
\* whatever the owned flag.
C6_OnlyBulkTeardownSkipsUnowned ==
    [][ \A b \in Backends :
          (SharedCase(b) /\ last'.reg = "B") =>
             /\ last'.op = "destroy_all" =>
                   /\ cleanups'[b] = cleanups[b]
                   /\ EntriesOf(instances'["B"], b) = EntriesOf(instances["B"], b)
                   /\ instances'["A"] = instances["A"]
             /\ (last'.op = "destroy" /\ get(instances["B"], last'.outcome.name) = b) =>
                   /\ cleanups'[b] = cleanups[b] + 1
                   /\ get(instances'["B"], last'.outcome.name) = None
      ]_regVars

\* B's destroy_all() has destroyed an entry of its own while a backend that
\* A owns and B holds unowned is still untouched.
C6_Witness ==
    /\ last.op = "destroy_all"
    /\ last.reg = "B"
    /\ Len(last.called) >= 1
    /\ \E b \in Backends : SharedCase(b) /\ cleanups[b] = 0

(***************************************************************************)
(* Properties of LocalBackend.exec_command                                 *)
(***************************************************************************)
\* The signals the call has sent to the process group, in order.
Sent == SelectSeq(log, LAMBDA e : e \in {"SIGTERM", "SIGKILL"})

TimedOut == pc \in {"grace", "drain"} \/ (pc = "done" /\ result.timed_out)

C8_NoSurvivorAfterTimeout ==
    (pc = "done" /\ result.timed_out) =>
        /\ shell.status # "running"
        /\ ~(child.alive /\ child.inGroup)

\* C9 as claimed: a call with a timeout is never still suspended later than
\* timeout plus the grace period after it started.
C9_ReturnsWithinGrace ==
    (Running /\ call.timeout # NoTimeout) =>
        now <= call.timeout[1] + GracePeriod

\* C10 as claimed: a timed-out result has the sentinel exit code and empty
\* stdout, and no other result has the sentinel exit code.
C10_SentinelDistinct ==
    pc = "done" =>
        /\ result.timed_out => (result.exit_code = TimedOutExit /\ result.stdout = "")
        /\ ~result.timed_out => result.exit_code # TimedOutExit

(***************************************************************************)
(* Properties of filter_env_vars                                           *)
(***************************************************************************)
\* The call has returned.
EnvReturned == envResult # <<>>

\* The overrides of the call, as a dict (None is no override).
Explicit ==
    IF envCall[1].explicit_vars = NoExplicit THEN [k \in {} |-> "v1"]
    ELSE envCall[1].explicit_vars[1]

\* C15: for each of the three policies and every base environment, every
\* key of the explicit overrides is in the result of filter_env_vars with
\* the value the overrides give it, also when the key has a secret-like
\* name or the base holds it with another value.
C15_ExplicitAlwaysPresent ==
    EnvReturned =>
        \A k \in DOMAIN Explicit :
            k \in DOMAIN envResult[1] /\ envResult[1][k] = Explicit[k]

\* Under core_only, an override with a secret-like name that the base holds
\* with another value is in the result with the override's value.
C15_Witness ==
    /\ EnvReturned
    /\ envCall[1].policy = "core_only"
    /\ \E k \in DOMAIN Explicit \cap DOMAIN envCall[1].base_env :
          /\ _is_secret(k)
          /\ envCall[1].base_env[k] # Explicit[k]
          /\ envResult[1][k] = Explicit[k]

\* A name whose uppercased form ends with one of the six secret suffixes.
SecretName(k) ==
    \E suffix \in SECRET_SUFFIXES :
        /\ Len(suffix) <= Len(k)
        /\ \A i \in 1..Len(suffix) :
              upper(k)[Len(k) - Len(suffix) + i] = suffix[i]

\* Under core_only a secret key of the base is in the result only if it is
\* a core name or an override; under inherit_none the result is exactly the
\* overrides.
SecretsFiltered ==
    /\ envCall[1].policy = "core_only" =>
          \A k \in DOMAIN envCall[1].base_env :
              (SecretName(k) /\ k \in DOMAIN envResult[1]) =>
                  (k \in CORE_VARS \/ k \in DOMAIN Explicit)
    /\ envCall[1].policy = "inherit_none" => envResult[1] = Explicit

\* C16 as claimed: under core_only a secret key of the base is in the result
\* only if it is a core name or an override, and every other base key is
\* kept with its base value; under inherit_none the result is exactly the
\* overrides.
C16_OtherKeysKeepBaseValue ==
    EnvReturned =>
        /\ SecretsFiltered
        /\ envCall[1].policy = "core_only" =>
              \A k \in DOMAIN envCall[1].base_env :
                  ~SecretName(k) =>
                      /\ k \in DOMAIN envResult[1]
                      /\ envResult[1][k] = envCall[1].base_env[k]

\* C16, amended: as claimed, except that a base key that is not secret is
\* kept with its base value only when the overrides do not hold it; when
\* they do, it is in the result with the override's value.
C16_OtherKeysKeptOrOverridden ==
    EnvReturned =>
        /\ SecretsFiltered
        /\ envCall[1].policy = "core_only" =>
              \A k \in DOMAIN envCall[1].base_env :
                  ~SecretName(k) =>
                      /\ k \in DOMAIN envResult[1]
                      /\ envResult[1][k] =
                            IF k \in DOMAIN Explicit THEN Explicit[k]
                            ELSE envCall[1].base_env[k]

\* Under core_only a base with a secret key in lower case, a core key and a
\* plain key, one of them overridden with another value: the secret key is
\* dropped, the others are kept.
C16_Witness ==
    /\ EnvReturned
    /\ envCall[1].policy = "core_only"
    /\ DOMAIN envCall[1].base_env = EnvKeys
    /\ \E k \in DOMAIN Explicit :
          ~SecretName(k) /\ Explicit[k] # envCall[1].base_env[k]
    /\ \E k \in EnvKeys :
          SecretName(k) /\ upper(k) # k /\ k \notin DOMAIN envResult[1]

(***************************************************************************)
(* Properties of the wrappers                                              *)
(***************************************************************************)
\* A call of an operation has just been made on the wrapped backend.
Called == ncalls' = ncalls + 1

\* C13: through a ReadOnlyWrapper, write_file and edit_file raise
\* PermissionError and are not forwarded, so the inner backend's write_file
\* and edit_file have been invoked zero times after any sequence of calls;
\* every other operation invokes the same operation of the inner backend
\* exactly once, with the same arguments, and returns its result.
C13_ReadOnlyBlocksWrites ==
    [][ (Called /\ wenv.chain = <<"readonly">>) =>
          /\ \A w \in WriteOps : innerCount'[w] = 0
          /\ IF wcall'.op \in WriteOps
             THEN /\ wcall'.outcome = PermissionError
                  /\ wcall'.trace = <<>>
                  /\ innerCount' = innerCount
             ELSE /\ wcall'.trace =
                        <<[ev |-> "inner", op |-> wcall'.op, args |-> wcall'.args]>>
                  /\ wcall'.outcome = wcall'.inner
                  /\ innerCount' =
                        [innerCount EXCEPT ![wcall'.op] = innerCount[wcall'.op] + 1]
      ]_wrapVars

\* Through a ReadOnlyWrapper alone, a write has been refused after reads
\* were passed on.
C13_Witness ==
    /\ wenv.chain = <<"readonly">>
    /\ wcall.op = "write_file"
    /\ wcall.outcome = PermissionError
    /\ innerCount["read_file"] > 0
    /\ innerCount["exec_command"] > 0

\* C14: when both "logging" and "readonly" are requested, in either order,
\* env_create builds LoggingWrapper(ReadOnlyWrapper(b)); a write_file or
\* edit_file call on it first emits the log record of the attempt, then
\* raises PermissionError, and b's write_file/edit_file is never invoked.
C14_LoggedThenRefused ==
    [][ (Called /\ {wenv.wrappers[i] : i \in DOMAIN wenv.wrappers} = {"logging", "readonly"}) =>
          /\ wenv.chain = <<"logging", "readonly">>
          /\ \A w \in WriteOps : innerCount'[w] = 0
          /\ wcall'.op \in WriteOps =>
                /\ wcall'.trace =
                      <<[ev |-> "log", op |-> wcall'.op, args |-> wcall'.args]>>
                /\ wcall'.outcome = PermissionError
      ]_wrapVars

\* "logging" listed before "readonly": an edit_file call is logged and
\* refused.
C14_Witness ==
    /\ wenv.wrappers = <<"logging", "readonly">>
    /\ wcall.op = "edit_file"
    /\ Len(wcall.trace) = 1
    /\ wcall.outcome = PermissionError

(***************************************************************************)
(* Properties of the file operations                                       *)
(***************************************************************************)
\* The location the path argument of the last call names, as _resolve and
\* the remote shell find it.
Target == Walk(IF fsCall.path[1].abs THEN <<>> ELSE WorkingDir, fsCall.path[1].parts)

\* The last call had a path argument, and it lies in the working directory.
TargetInside == fsCall.path # <<>> /\ is_relative_to(Target, WorkingDir)

\* Every remote command of the last call ran and delivered its output.
AllRan == \A i \in DOMAIN fsCall.ran : fsCall.ran[i]

\* Every position of content at which old occurs, overlapping ones included.
Positions(content, old) ==
    {i \in 1..(Len(content) - Len(old) + 1) : SubSeq(content, i, i + Len(old) - 1) = old}

\* C11 as claimed: a LocalBackend operation whose path argument (for
\* exec_command, its workdir) resolves outside the working directory is
\* rejected with the escapes-working-directory failure, has touched no file
\* and has spawned no process.
C11_OutsidePathsRejected ==
    (fsKind = "local" /\ fsCall.path # <<>> /\ ~is_relative_to(Target, WorkingDir)) =>
        /\ fsCall.outcome.kind = Escapes
        /\ fsCall.touched = {}
        /\ fsCall.spawned = {}

\* C12 as claimed: edit_file on an existing file replaces only when old
\* occurs at exactly one position of the current content (overlapping
\* occurrences counted), the new content being the old one with that
\* occurrence replaced by new; otherwise it raises and leaves the file.
C12_EditOnlyWhenUnique ==
    [][ LET loc     == Walk(IF fsCall'.path[1].abs THEN <<>> ELSE WorkingDir,
                            fsCall'.path[1].parts)
            content == fs.files[loc][1]
            old     == fsCall'.args[1]
            new     == fsCall'.args[2]
            at      == Positions(content, old)
        IN  (/\ fsCall'.op = "edit_file"
             /\ is_relative_to(loc, WorkingDir)
             /\ EntryType(fs, loc) = "file"
             /\ \A i \in DOMAIN fsCall'.ran : fsCall'.ran[i]) =>
                IF Cardinality(at) = 1
                THEN /\ fsCall'.outcome.kind = "returned"
                     /\ \E i \in at :
                           fs'.files[loc] =
                               <<SubSeq(content, 1, i - 1) \o new
                                    \o SubSeq(content, i + Len(old), Len(content))>>
                ELSE /\ fsCall'.outcome.kind \in {"ValueError: String not found",
                                                 "ValueError: String not unique"}
                     /\ fs' = fs
      ]_fsVars

\* C17 as claimed: on every backend and for every path, file_exists of a
\* path that does not exist does not raise and returns false.
C17_FileExistsFalseWhenMissing ==
    (fsCall.op = "file_exists" /\ EntryType(fs, Target) = "absent") =>
        /\ fsCall.outcome.kind = "returned"
        /\ fsCall.outcome.value = FALSE

\* C18 as claimed: on LocalBackend, for a path inside the working directory,
\* write_file creates the missing parent directories, and a read_file of
\* the path right after write_file(path, content) returns exactly content.
C18_WriteThenReadRoundTrip ==
    [][ /\ (/\ fsKind = "local"
            /\ fsCall'.op = "write_file"
            /\ fsCall'.outcome.kind = "returned") =>
               LET loc == _resolve(fsCall'.path[1]).resolved
               IN  EntryType(fs', SubSeq(loc, 1, Len(loc) - 1)) = "dir"
        /\ (/\ fsKind = "local"
            /\ fsCall.op = "write_file"
            /\ fsCall.outcome.kind = "returned"
            /\ fsCall'.op = "read_file"
            /\ fsCall'.path = fsCall.path) =>
               /\ fsCall'.outcome.kind = "returned"
               /\ fsCall'.outcome.value = fsCall.args[1]
      ]_fsVars

\* C19 as claimed: on every backend grep returns the match text when the
\* grep it ran exited 0, "No matches found." when it exited 1, and raises
\* when it exited with a status above 1.
C19_GrepThreeOutcomes ==
    LET loc == IF fsCall.path = <<>> THEN WorkingDir ELSE Target
        run == GrepRun(fs, fsCall.args[1], loc)
    IN  (fsCall.op = "grep" /\ is_relative_to(loc, WorkingDir) /\ AllRan) =>
            /\ run.exit_code = 0 =>
                  fsCall.outcome = [kind |-> "returned", value |-> GrepText(run.stdout)]
            /\ run.exit_code = 1 =>
                  fsCall.outcome = [kind |-> "returned", value |-> NoMatchesFound]
            /\ run.exit_code > 1 => fsCall.outcome.kind # "returned"

\* C20 as claimed: on every backend read_file of a path (within the working
\* directory) that does not exist fails with the not-found error and
\* returns no string.
C20_ReadMissingFails ==
    (fsCall.op = "read_file" /\ TargetInside /\ EntryType(fs, Target) = "absent") =>
        fsCall.outcome.kind = "FileNotFoundError"

(***************************************************************************)
(* Properties of read_file with offset and limit                           *)
(***************************************************************************)
\* The lines numbered from..to of a text, a line ending at each line feed.
NumberedLines(file, from, to) ==
    join(Slice(splitlines(file, ShellLineEnds), from - 1, to))

\* C21: LocalBackend.read_file(path, offset, limit) returns exactly the
\* lines offset..offset+limit-1 of the file (from line 1 without offset,
\* through the last line without limit) for every offset >= 1 and every
\* limit >= 0, which is what the Docker/SSH command yields for that file.
C21_ReadLinesAsTailHead ==
    (/\ rd # <<>>
     /\ rd[1].returned # <<>>
     /\ rd[1].offset # <<0>>)
    => LET c    == rd[1]
           from == IF c.offset = <<>> THEN 1 ELSE c.offset[1]
           to   == IF c.limit = <<>> THEN Len(c.file) ELSE from + c.limit[1] - 1
       IN  /\ c.returned[1].local = NumberedLines(c.file, from, to)
           /\ c.returned[1].local = c.returned[1].remote

(***************************************************************************)
(* Properties of list_dir                                                  *)
(***************************************************************************)
\* A list_dir(".", depth) on a LocalBackend has returned while d/e/f, which
\* only a write_file can have created, is a file.
ListedWithNestedFile ==
    /\ fsKind = "local"
    /\ fsCall.op = "list_dir"
    /\ fsCall.outcome.kind = "returned"
    /\ fsCall.path = <<[abs |-> FALSE, parts |-> <<".">>]>>
    /\ EntryType(fs, <<"w", "d", "e", "f">>) = "file"

DirEntry(name) == [name |-> name, entry_type |-> "dir", size |-> <<>>]

NestedFileEntry ==
    [name |-> <<"d", "e", "f">>, entry_type |-> "file",
     size |-> <<Len(fs.files[<<"w", "d", "e", "f">>][1])>>]

\* C22 as stated: after write_file of a file two directories down,
\* list_dir(".", depth=2) includes the entry of the inner directory and the
\* entry of the file with its size, both named by their relative path.
C22_DepthTwoListsNestedFile ==
    (ListedWithNestedFile /\ fsCall.args = <<2>>)
    => /\ DirEntry(<<"d", "e">>) \in fsCall.outcome.value
       /\ NestedFileEntry \in fsCall.outcome.value

\* C22 amended: list_dir(".", depth) lists exactly the entries at most
\* depth levels down, each named by its path relative to the listed
\* directory: the inner directory d/e from depth 2 on, the file d/e/f with
\* its size from depth 3 on.
C22_ListsDownToDepth ==
    ListedWithNestedFile
    => LET depth   == fsCall.args[1]
           entries == fsCall.outcome.value
       IN  /\ DirEntry(<<"d">>) \in entries
           /\ DirEntry(<<"d", "e">>) \in entries <=> depth >= 2
           /\ NestedFileEntry \in entries <=> depth >= 3
           /\ \A e \in entries :
                 /\ Len(e.name) <= depth
                 /\ EntryType(fs, Walk(WorkingDir, e.name)) = e.entry_type

C22_Witness ==
    /\ ListedWithNestedFile
    /\ fsCall.args = <<2>>
    /\ DirEntry(<<"d", "e">>) \in fsCall.outcome.value
    /\ NestedFileEntry \notin fsCall.outcome.value

(***************************************************************************)
(* Properties of the session: the cleanup hook, the mounts, env_destroy    *)
(***************************************************************************)
\* The step is a call of the hook, or of the env_destroy tool.
HookCalled    == last'.op = "session:end" /\ nops' = nops + 1
DestroyCalled == last'.op = "env_destroy" /\ nops' = nops + 1

Unowned(insts) == SelectSeq(insts, LAMBDA e : ~e.owned)
Owned(insts)   == SelectSeq(insts, LAMBDA e : e.owned)

C25_ToolsAndHookShareRegistry ==
    (mounts.tools # None /\ mounts.hooks # None) => mounts.tools = mounts.hooks

\* C30: EnvDestroyTool.execute always returns a ToolResult and never
\* raises: a failure naming the active instances for an unknown instance
\* or a missing parameter, and a result also when cleanup() raises, the
\* instance being removed nevertheless.
C30_EnvDestroyAlwaysReturnsResult ==
    [][DestroyCalled =>
        /\ last'.outcome.kind = "ToolResult"
        /\ last'.called = <<>> => (~last'.outcome.success /\ last'.outcome.active # <<>>)
        /\ last'.raised # <<>> => ~Has(instances'[last'.reg], last'.raised[1])]_vars

(***************************************************************************)
(* Properties of concurrent destroy() and destroy_all()                    *)
(***************************************************************************)
\* How many entries of the registry with backend b a step removes.
Removed(b) ==
    Cardinality({i \in DOMAIN instances["A"] :
                    /\ instances["A"][i].backend = b
                    /\ ~Has(instances'["A"], instances["A"][i].name)})

\* C28: under every interleaving of concurrent destroy(name) and
\* destroy_all() calls at their await points, cleanup() is invoked at most
\* once per registration: each invocation goes with the removal of the
\* entry by the task that invokes it, a task that finds the entry gone
\* invokes nothing, and no name is in the registry while a cleanup() that
\* was started for it runs.
C28_CleanupOncePerRegistration ==
    /\ [](\A b \in Backends : cleanups[b] <= registered[b])
    /\ [](\A t \in Tasks :
            tasks[t].pc = "cleanup" => get(instances["A"], tasks[t].name) = None)
    /\ [][\A b \in Backends : cleanups'[b] = cleanups[b] + Removed(b)]_vars
    /\ [][(nops' = nops + 1 /\ tasks' = tasks /\ last'.op = "destroy")
            => /\ last'.outcome.kind = "KeyError"
               /\ ~Has(instances["A"], last'.outcome.name)
               /\ cleanups' = cleanups]_vars

\* Both tasks are suspended in a cleanup(), one in destroy_all() and one in
\* destroy(), and the destroy_all() has a name left that the other task took.
C28_Witness ==
    \E t, u \in Tasks :
        /\ tasks[t].pc = "cleanup" /\ tasks[t].op = "destroy_all"
        /\ tasks[u].pc = "cleanup" /\ tasks[u].op = "destroy"
        /\ tasks[t].names = <<tasks[u].name>>

(***************************************************************************)
(* Properties of DockerBackend when the containers tool fails              *)
(***************************************************************************)
\* C29: DockerBackend never reports success for a request the containers
\* tool could not run: when the tool's result carries no output mapping,
\* file_exists does not return true and exec_command does not return
\* exit_code 0.
C29_NoSuccessWithoutOutput ==
    (fsKind = "docker" /\ fsCall.ran = <<FALSE>>) =>
        /\ fsCall.op = "file_exists" => fsCall.outcome.value # TRUE
        /\ fsCall.op = "exec_command" => fsCall.outcome.value.exit_code # 0

(***************************************************************************)
(* Properties of env_create and of the teardown of what it made            *)
(***************************************************************************)
\* The step ends an env_create call; the result of that call.
CreateReturned == Len(made') = Len(made) + 1
Returned       == made'[Len(made')]

\* C24: env_create registers the instance with owned=false exactly when
\* attach_to is given and with owned=true otherwise, so that destroy_all()
\* at session end tears down what env_create created: no instance that is
\* left in the registry then holds a container, stack or connection that
\* its env_create call made.
C24_OwnedUnlessAttached ==
    /\ [][(CreateReturned /\ Returned.success)
            => Lookup(instances'["A"], Returned.input.name).owned
                  = (Returned.input.attach_to = <<>>)]_vars
    /\ [][(last'.op = "session:end" /\ nops' = nops + 1)
            => \A i \in DOMAIN instances'["A"] :
                  instances'["A"][i].backend.holds = {}]_vars

\* C26: whenever env_create returns a failure result, nothing that was
\* created during the call stays alive: a failure after creation and a
\* name registered by a concurrent env_create included.
C26_FailureLeavesNothingAlive ==
    \A i \in DOMAIN made :
        ~made[i].success => made[i].made \cap docker.live = {}

\* C27: every container or compose stack a successful env_create made is
\* released by the registry: once destroy(name) or destroy_all() has taken
\* the instance out, a destroy request covering it has been issued, for a
\* stack one that carries its compose_project.
C27_RegistryReleasesWhatWasMade ==
    \A i \in DOMAIN made :
        made[i].success =>
            \A r \in made[i].made \cap docker.live :
                \E e \in DOMAIN instances["A"] : r \in instances["A"][e].backend.holds

====
